---- MODULE Spec2Model ----
(***************************************************************************)
(* Model of axlotl-lab/navigrator: the hosts-file registry (HostsManager), *)
(* the SNI reverse proxy (ProxyService) and the local certificate manager  *)
(* (CertificateManager).                                                   *)
(*                                                                         *)
(* Text representation.  A line of the hosts file is a sequence of         *)
(* symbols: "#" (the comment character), " " (one whitespace character)    *)
(* and words (maximal strings without whitespace that do not start with    *)
(* '#', such as "127.0.0.1" or "a.local").  The file content is kept as    *)
(* content.split('\n'), a non-empty sequence of lines; lines.join('\n') is *)
(* the inverse, so reading and writing the file are exact.                 *)
(***************************************************************************)
EXTENDS Integers, Sequences, FiniteSets, TLC

VARIABLES
  hostsFile,        \* lines of the hosts file
  last,             \* the latest HostsManager call
  pending,          \* HostsManager calls in flight, each at one of its awaits
  proxies,          \* ProxyService.proxies: domain -> ProxyConfig
  sniServer,        \* ProxyService.sniServer: 0 (null) or an index of servers
  sniCertificates,  \* ProxyService.sniCertificates: domain -> {key, cert}
  servers,          \* every https.Server created so far, with its state
  savedProxies,     \* the route records persisted in proxies.json
  plast,            \* the latest ProxyService call or listener event
  conn,             \* a client connection to the shared listener, in flight
  build,            \* which CertificateManager is built in: "openssl" or "forge"
  hasOpenSSL,       \* CertificateManager.hasOpenSSL (OpenSSL build)
  hasMkcert,        \* CertificateManager.hasMkcert (node-forge build)
  certsDir,         \* the files of certsDir: file name -> content
  clock,            \* the current time, counted in half certificate lifetimes
  clast,            \* the latest CertificateManager call
  issuing,          \* createCertificate calls in flight, each at one of its awaits
  rootCA            \* ca/rootCA.key and ca/rootCA.crt, and how they came to be

hostVars == << hostsFile, last, pending >>
proxyVars == << proxies, sniServer, sniCertificates, servers, savedProxies, plast,
               conn >>
certVars == << build, hasOpenSSL, hasMkcert, certsDir, clock, clast, issuing,
              rootCA >>
vars == << hostVars, proxyVars, certVars >>

(***************************************************************************)
(* Bounds                                                                  *)
(***************************************************************************)
MaxInitLines == 2
MaxFileLen == MaxInitLines + 2

(***************************************************************************)
(* Text helpers (String.prototype.trim / split(/\s+/) / startsWith)        *)
(***************************************************************************)
RECURSIVE TrimLeft(_)
TrimLeft(s) ==
  IF s = <<>> THEN s
  ELSE IF Head(s) = " " THEN TrimLeft(Tail(s)) ELSE s

RECURSIVE TrimRight(_)
TrimRight(s) ==
  IF s = <<>> THEN s
  ELSE IF s[Len(s)] = " " THEN TrimRight(SubSeq(s, 1, Len(s) - 1)) ELSE s

Trim(s) == TrimRight(TrimLeft(s))

\* s.split(/\s+/): the words of s.  "".split gives [""]; a leading or a
\* trailing whitespace run gives an empty first or last word.
RECURSIVE SplitWs(_, _, _)
SplitWs(s, cur, inWs) ==
  IF s = <<>> THEN << cur >>
  ELSE IF Head(s) = " "
       THEN IF inWs THEN SplitWs(Tail(s), cur, TRUE)
            ELSE << cur >> \o SplitWs(Tail(s), <<>>, TRUE)
       ELSE SplitWs(Tail(s), Append(cur, Head(s)), FALSE)

Split(s) == SplitWs(s, <<>>, FALSE)

StartsWithHash(s) == s # <<>> /\ Head(s) = "#"

\* line.substring(1) on a line that starts with the one-character '#'
Substring1(s) == IF s = <<>> THEN s ELSE Tail(s)

Min(S) == CHOOSE i \in S : \A j \in S : i <= j

\* lines.splice(i, 0, x) and lines.splice(i, 2), for 1-based position i
InsertAt(lines, i, x) ==
  SubSeq(lines, 1, i - 1) \o << x >> \o SubSeq(lines, i, Len(lines))

RemoveTwo(lines, i) ==
  SubSeq(lines, 1, i - 1) \o SubSeq(lines, i + 2, Len(lines))

(***************************************************************************)
(* HostsManager constants                                                  *)
(***************************************************************************)
APP_IDENTIFIER == << "#", " ", "@axlotl-lab/navigrator" >>
DISABLED_IDENTIFIER == << "#", " ", "@axlotl-lab/navigrator-disabled" >>

DefaultIp == << "127.0.0.1" >>

\* Strings handed to the operations are words: sequences of symbols
Domains == { << "a.local" >>, << "b.local" >> }
Ips == { << "127.0.0.1" >>, << "::1" >> }

\* `${ip} ${domain}`
DataLine(ip, domain) == ip \o << " " >> \o domain

\* the next line (1-based i+1) is one of our identifiers
NextIsIdentifier(lines, i) ==
  i < Len(lines) /\
  (Trim(lines[i + 1]) = APP_IDENTIFIER \/ Trim(lines[i + 1]) = DISABLED_IDENTIFIER)

NextIsDisabledIdentifier(lines, i) ==
  i < Len(lines) /\ Trim(lines[i + 1]) = DISABLED_IDENTIFIER

\* parts.length >= 2 && parts[0] === ip && parts[1] === domain
PartsMatch(text, ip, domain) ==
  LET parts == Split(text)
  IN  Len(parts) >= 2 /\ parts[1] = ip /\ parts[2] = domain

(***************************************************************************)
(* HostsManager.parseHostsFile                                             *)
(***************************************************************************)
RECURSIVE ParseFrom(_, _)
ParseFrom(lines, i) ==
  IF i > Len(lines) THEN <<>>
  ELSE
    LET raw == Trim(lines[i])
        commented == StartsWithHash(raw)
        isDisabled == commented /\ NextIsDisabledIdentifier(lines, i)
        line == IF isDisabled THEN Trim(Substring1(raw)) ELSE raw
    IN  IF commented /\ ~isDisabled THEN ParseFrom(lines, i + 1)
        ELSE IF line = <<>> THEN ParseFrom(lines, i + 1)
        ELSE
          LET isCreatedByUs == NextIsIdentifier(lines, i)
              parts == Split(line)
          IN  IF Len(parts) >= 2
              THEN << [ ip |-> parts[1], domain |-> parts[2],
                        isCreatedByUs |-> isCreatedByUs,
                        isDisabled |-> isDisabled,
                        lineNumber |-> i ] >>
                   \o ParseFrom(lines, IF isCreatedByUs THEN i + 2 ELSE i + 1)
              ELSE ParseFrom(lines, i + 1)

parseHostsFile(lines) == ParseFrom(lines, 1)

readHosts(lines) == parseHostsFile(lines)

readLocalHosts(lines) ==
  SelectSeq(readHosts(lines),
            LAMBDA h : h.ip = << "127.0.0.1" >> \/ h.ip = << "::1" >>)

(***************************************************************************)
(* HostsManager operations.  Each returns the lines of the file after the  *)
(* call, the boolean the call resolves to, and whether the file was        *)
(* written (fs.writeFile / fs.appendFile called).                          *)
(***************************************************************************)
Outcome(lines, ret, written) ==
  [ lines |-> lines, ret |-> ret, written |-> written ]

\* HostsManager.writeHostsFile(lines.join('\n'))
writeHostsFile(lines) == Outcome(lines, TRUE, TRUE)

\* Mutant: the new entry is appended without the identifier line
appendWithoutIdentifier(lines, ip, domain) ==
  Outcome(lines \o << DataLine(ip, domain) >>, TRUE, TRUE)

\* an append that ends the new block with a newline
appendWithNewline(lines, ip, domain) ==
  Outcome(lines \o << DataLine(ip, domain), APP_IDENTIFIER, << >> >>, TRUE, TRUE)

\* HostsManager.appendToHostsFile(`\n${ip} ${domain}\n${APP_IDENTIFIER}`)
appendToHostsFile(lines, ip, domain) ==
  Outcome(lines \o << DataLine(ip, domain), APP_IDENTIFIER >>, TRUE, TRUE)

\* HostsManager.markHostAsOurs: the first uncommented line for (ip, domain)
MarkCandidates(lines, domain, ip) ==
  { i \in 1..Len(lines) :
      LET line == Trim(lines[i])
      IN  /\ line # <<>>
          /\ ~StartsWithHash(line)
          /\ PartsMatch(line, ip, domain) }

\* Mutant: reports success for an unmanaged line without inserting anything
markWithoutWrite(lines, domain, ip) ==
  Outcome(lines, MarkCandidates(lines, domain, ip) # {}, FALSE)

\* markHostAsOurs that answers false for a line that is already marked
markFalseWhenMarked(lines, domain, ip) ==
  LET cand == MarkCandidates(lines, domain, ip)
  IN  IF cand = {} \/ NextIsIdentifier(lines, Min(cand))
      THEN Outcome(lines, FALSE, FALSE)
      ELSE writeHostsFile(InsertAt(lines, Min(cand) + 1, APP_IDENTIFIER))

markHostAsOurs(lines, domain, ip) ==
  LET cand == MarkCandidates(lines, domain, ip)
  IN  IF cand = {} THEN Outcome(lines, FALSE, FALSE)
      ELSE LET i == Min(cand)
           IN  IF NextIsIdentifier(lines, i)
               THEN Outcome(lines, TRUE, FALSE)
               ELSE writeHostsFile(InsertAt(lines, i + 1, APP_IDENTIFIER))

\* HostsManager.adoptHost
adoptHost(lines, domain, ip) == markHostAsOurs(lines, domain, ip)

\* HostsManager.toggleHostState: the first line for (ip, domain), commented
\* or not, that has one of our identifiers directly below it
ToggleActualLine(lines, i) ==
  LET line == Trim(lines[i])
  IN  IF StartsWithHash(line) THEN Trim(Substring1(line)) ELSE line

ToggleCandidates(lines, domain, ip) ==
  { i \in 1..Len(lines) :
      LET line == Trim(lines[i])
      IN  /\ line # <<>>
          /\ line # APP_IDENTIFIER
          /\ line # DISABLED_IDENTIFIER
          /\ PartsMatch(ToggleActualLine(lines, i), ip, domain)
          /\ NextIsIdentifier(lines, i) }

\* toggleHostState that comments out only the domain, dropping the ip
toggleDroppingIp(lines, domain, disable, ip) ==
  LET cand == ToggleCandidates(lines, domain, ip)
  IN  IF cand = {} THEN Outcome(lines, FALSE, FALSE)
      ELSE
        LET i == Min(cand)
            isCommentedLine == StartsWithHash(Trim(lines[i]))
            wanted == IF disable THEN DISABLED_IDENTIFIER ELSE APP_IDENTIFIER
        IN  IF (disable /\ isCommentedLine) \/ (~disable /\ ~isCommentedLine)
            THEN IF Trim(lines[i + 1]) # wanted
                 THEN writeHostsFile([ lines EXCEPT ![i + 1] = wanted ])
                 ELSE Outcome(lines, FALSE, FALSE)
            ELSE writeHostsFile(
                   [ lines EXCEPT
                       ![i] = IF disable THEN << "#", " " >> \o domain
                                         ELSE ToggleActualLine(lines, i),
                       ![i + 1] = wanted ])

\* toggleHostState that does not look for an identifier below the line
toggleWithoutIdentifier(lines, domain, disable, ip) ==
  LET cand == { i \in 1..Len(lines) :
                  /\ Trim(lines[i]) \notin { <<>>, APP_IDENTIFIER, DISABLED_IDENTIFIER }
                  /\ PartsMatch(ToggleActualLine(lines, i), ip, domain) }
  IN  IF cand = {} THEN Outcome(lines, FALSE, FALSE)
      ELSE
        LET i == Min(cand)
            isCommentedLine == StartsWithHash(Trim(lines[i]))
            actualLine == ToggleActualLine(lines, i)
        IN  IF (disable /\ isCommentedLine) \/ (~disable /\ ~isCommentedLine)
            THEN Outcome(lines, FALSE, FALSE)
            ELSE writeHostsFile(
                   [ lines EXCEPT
                       ![i] = IF disable THEN << "#", " " >> \o actualLine
                                         ELSE actualLine ])

\* toggleHostState that rewrites the data line and leaves the identifier
\* below it as it is
toggleKeepingIdentifier(lines, domain, disable, ip) ==
  LET cand == ToggleCandidates(lines, domain, ip)
  IN  IF cand = {} THEN Outcome(lines, FALSE, FALSE)
      ELSE
        LET i == Min(cand)
            isCommentedLine == StartsWithHash(Trim(lines[i]))
            actualLine == ToggleActualLine(lines, i)
        IN  IF (disable /\ isCommentedLine) \/ (~disable /\ ~isCommentedLine)
            THEN Outcome(lines, FALSE, FALSE)
            ELSE writeHostsFile(
                   [ lines EXCEPT
                       ![i] = IF disable THEN << "#", " " >> \o actualLine
                                         ELSE actualLine ])

toggleHostState(lines, domain, disable, ip) ==
  LET cand == ToggleCandidates(lines, domain, ip)
  IN  IF cand = {} THEN Outcome(lines, FALSE, FALSE)
      ELSE
        LET i == Min(cand)
            isCommentedLine == StartsWithHash(Trim(lines[i]))
            actualLine == ToggleActualLine(lines, i)
            wanted == IF disable THEN DISABLED_IDENTIFIER ELSE APP_IDENTIFIER
        IN  IF (disable /\ isCommentedLine) \/ (~disable /\ ~isCommentedLine)
            THEN IF Trim(lines[i + 1]) # wanted
                 THEN writeHostsFile([ lines EXCEPT ![i + 1] = wanted ])
                 ELSE Outcome(lines, FALSE, FALSE)
            ELSE writeHostsFile(
                   [ lines EXCEPT
                       ![i] = IF disable THEN << "#", " " >> \o actualLine
                                         ELSE actualLine,
                       ![i + 1] = wanted ])

\* HostsManager.removeHost: the first commented line for (ip, domain) with the
\* disabled identifier below it, or uncommented line with either identifier
\* Mutant: the identifier below the line is not checked
RemoveCandidatesAnyLine(lines, domain, ip) ==
  { i \in 1..Len(lines) :
      LET line == Trim(lines[i])
      IN  /\ line # <<>>
          /\ IF StartsWithHash(line)
             THEN PartsMatch(Trim(Substring1(line)), ip, domain)
             ELSE PartsMatch(line, ip, domain) }

\* Mutant: a commented line is accepted with either identifier below it
RemoveCandidatesAnyIdentifier(lines, domain, ip) ==
  { i \in 1..Len(lines) :
      LET line == Trim(lines[i])
      IN  /\ line # <<>>
          /\ PartsMatch(IF StartsWithHash(line) THEN Trim(Substring1(line))
                                                ELSE line, ip, domain)
          /\ NextIsIdentifier(lines, i) }

RemoveCandidates(lines, domain, ip) ==
  { i \in 1..Len(lines) :
      LET line == Trim(lines[i])
      IN  /\ line # <<>>
          /\ IF StartsWithHash(line)
             THEN /\ PartsMatch(Trim(Substring1(line)), ip, domain)
                  /\ NextIsDisabledIdentifier(lines, i)
             ELSE /\ PartsMatch(line, ip, domain)
                  /\ NextIsIdentifier(lines, i) }

removeHost(lines, domain, ip) ==
  LET cand == RemoveCandidates(lines, domain, ip)
  IN  IF cand = {} THEN Outcome(lines, FALSE, FALSE)
      ELSE writeHostsFile(RemoveTwo(lines, Min(cand)))

\* hosts.find(h => h.domain === domain && h.ip === ip)
\* Mutant: the ip of the entry is compared with the domain asked for
FindHostWrongField(hosts, domain, ip) ==
  { k \in 1..Len(hosts) :
      hosts[k].domain = domain /\ hosts[k].ip = domain }

FindHost(hosts, domain, ip) ==
  { k \in 1..Len(hosts) :
      hosts[k].domain = domain /\ hosts[k].ip = ip }

\* HostsManager.addHost
addHost(lines, domain, ip) ==
  LET hosts == readHosts(lines)
      found == FindHost(hosts, domain, ip)
  IN  IF found # {}
      THEN LET existingHost == hosts[Min(found)]
           IN  IF existingHost.isCreatedByUs
               THEN IF existingHost.isDisabled
                    THEN toggleHostState(lines, domain, FALSE, DefaultIp)
                    ELSE Outcome(lines, TRUE, FALSE)
               ELSE markHostAsOurs(lines, domain, ip)
      ELSE appendToHostsFile(lines, ip, domain)

\* HostsManager.importAllLocalHosts: adopt, one after the other, every entry
\* that the one readLocalHosts() at the start reported as not ours
RECURSIVE AdoptEach(_, _, _, _)
AdoptEach(lines, todo, count, written) ==
  IF todo = <<>>
  THEN [ lines |-> lines, ret |-> count > 0, written |-> written, count |-> count ]
  ELSE LET h == Head(todo)
           r == adoptHost(lines, h.domain, h.ip)
       IN  AdoptEach(r.lines, Tail(todo),
                     IF r.ret THEN count + 1 ELSE count,
                     written \/ r.written)

importAllLocalHosts(lines) ==
  LET hostsToAdopt == SelectSeq(readLocalHosts(lines),
                                LAMBDA h : ~h.isCreatedByUs)
  IN  AdoptEach(lines, hostsToAdopt, 0, FALSE)

\* HostsManager.importAllLocalHosts when the failAt-th fs.writeFile() of the
\* call rejects: writeHostsFile throws, markHostAsOurs and adoptHost rethrow,
\* and the error leaves the for loop through importAllLocalHosts' own catch,
\* which rethrows; the file keeps what the earlier writes stored and the
\* caller gets no result
RECURSIVE AdoptEachUntil(_, _, _, _, _)
AdoptEachUntil(lines, todo, count, writes, failAt) ==
  IF todo = <<>>
  THEN [ lines |-> lines, ret |-> count > 0, written |-> writes > 0,
         count |-> count, thrown |-> FALSE ]
  ELSE LET h == Head(todo)
           r == adoptHost(lines, h.domain, h.ip)
       IN  IF r.written /\ writes + 1 = failAt
           THEN [ lines |-> lines, ret |-> FALSE, written |-> writes > 0,
                  count |-> 0, thrown |-> TRUE ]
           ELSE AdoptEachUntil(r.lines, Tail(todo),
                               IF r.ret THEN count + 1 ELSE count,
                               IF r.written THEN writes + 1 ELSE writes,
                               failAt)

importAllLocalHostsFailing(lines, failAt) ==
  LET hostsToAdopt == SelectSeq(readLocalHosts(lines),
                                LAMBDA h : ~h.isCreatedByUs)
  IN  AdoptEachUntil(lines, hostsToAdopt, 0, 0, failAt)

(***************************************************************************)
(* ProxyService: a service with no route, no listener, nothing persisted   *)
(***************************************************************************)
EmptyMap == << >>

NoProxyCall ==
  [ op |-> "none", domain |-> <<>>, ret |-> FALSE,
    serverBefore |-> 0, createdBefore |-> 0, runningBefore |-> {},
    status |-> 0, target |-> <<>>, afterStop |-> FALSE, afterStart |-> FALSE,
    connBefore |-> "idle", host |-> <<>>, port |-> 0,
    certPath |-> <<>>, keyPath |-> <<>> ]

\* no client connection: nothing accepted by the shared listener
NoContext == << >>
NoConn ==
  [ stage |-> "idle", servername |-> << >>, context |-> NoContext,
    host |-> << >>, status |-> 0, target |-> << >>, headersSent |-> FALSE,
    failure |-> "none", proxiedBy |-> FALSE ]

(***************************************************************************)
(* ProxyService (SNI variant).  A Map is a function whose domain is the    *)
(* set of its keys.  A service state is the record of the object's fields  *)
(* plus the servers it has created and the content of proxies.json.        *)
(***************************************************************************)
MapSet(m, k, v) == [ x \in (DOMAIN m) \cup { k } |-> IF x = k THEN v ELSE m[x] ]
MapDelete(m, k) == [ x \in (DOMAIN m) \ { k } |-> m[x] ]

\* sniServerPort
SniServerPort == 443
\* the port addProxy stores when none is given
DefaultProxyPort == 443

\* Targets a caller may hand in: without a scheme, with http://, with https://
HttpScheme == "http://"
HttpsScheme == "https://"
NoTarget == << >>
Targets ==
  { << "localhost:3000" >>, << HttpsScheme, "localhost:8443" >> }
NoPort == 0
Ports == { NoPort, 8443 }

\* certificate/key file pairs a caller may name: the pair issued for the
\* domain, or a pair that is not on disk
PemOf(domain) == [ cert |-> domain \o << ".crt" >>, key |-> domain \o << ".key" >> ]
GonePem == [ cert |-> << "gone.crt" >>, key |-> << "gone.key" >> ]
PemPairs(domain) == { PemOf(domain), GonePem }
\* fs.readFileSync(path) returns: the file is in the certificates directory
Readable(path) == path \in DOMAIN certsDir
NoPath == << >>

\* target.startsWith('http://') || target.startsWith('https://')
HasScheme(target) ==
  target # << >> /\ Head(target) \in { HttpScheme, HttpsScheme }

\* `http://${target}`
NormalizeTarget(target) ==
  IF HasScheme(target) THEN target ELSE << HttpScheme >> \o target

Service(p, srv, certs, all, saved) ==
  [ proxies |-> p, sniServer |-> srv, sniCertificates |-> certs,
    servers |-> all, savedProxies |-> saved ]

Current == Service(proxies, sniServer, sniCertificates, servers, savedProxies)

Running(p) == { d \in DOMAIN p : p[d].isRunning }

\* the servers that hold, or are about to hold, the port
Live(all) == { i \in 1..Len(all) : all[i].status \in { "binding", "listening" } }

\* ProxyService.saveProxies
saveProxies(S) == [ S EXCEPT !.savedProxies = S.proxies ]

\* loadProxies that keeps the stored isRunning
loadProxiesAsStored(saved) == saved

\* ProxyService.loadProxies: every stored route, marked not running
loadProxies(saved) ==
  [ d \in DOMAIN saved |-> [ saved[d] EXCEPT !.isRunning = FALSE ] ]

\* ProxyService.stopSNIServer: close() and forget the server
stopSNIServer(S) ==
  IF S.sniServer # 0
  THEN [ S EXCEPT !.servers[S.sniServer].status = "closed", !.sniServer = 0 ]
  ELSE S

\* initOrUpdateSNIServer without its test for a server in place
initWithoutServerTest(S) ==
  [ S EXCEPT
      !.servers = Append(S.servers,
                         [ status |-> "binding", port |-> SniServerPort ]),
      !.sniServer = Len(S.servers) + 1 ]

\* ProxyService.initOrUpdateSNIServer: with a server in place nothing
\* observable changes; without one a server is created and listen() called.
\* The call returns a Promise, its outcome arrives later (ListenOk, ListenError).
initOrUpdateSNIServer(S) ==
  IF S.sniServer # 0 THEN S
  ELSE [ S EXCEPT
           !.servers = Append(S.servers,
                              [ status |-> "binding",
                                port |-> SniServerPort ]),
           !.sniServer = Len(S.servers) + 1 ]

\* addProxy that stores target and port as they were given
addProxyAsGiven(S, domain, target, port) ==
  LET config == [ domain |-> domain, target |-> target, port |-> port,
                  isRunning |-> FALSE,
                  certPath |-> NoPath, keyPath |-> NoPath ]
  IN  saveProxies([ S EXCEPT !.proxies = MapSet(S.proxies, domain, config) ])

\* ProxyService.addProxy
addProxy(S, domain, target, port) ==
  LET config == [ domain |-> domain,
                  target |-> NormalizeTarget(target),
                  port |-> IF port = NoPort THEN DefaultProxyPort ELSE port,
                  isRunning |-> FALSE,
                  certPath |-> NoPath, keyPath |-> NoPath ]
  IN  saveProxies([ S EXCEPT !.proxies = MapSet(S.proxies, domain, config) ])

\* a startProxy that stores the certificate before it looks for the route
startProxyUnchecked(S, domain, pem) ==
  LET S1 == [ S EXCEPT !.sniCertificates =
                MapSet(S.sniCertificates, domain,
                       [ key |-> pem.key, cert |-> pem.cert ]) ]
  IN  IF domain \notin DOMAIN S.proxies THEN [ s |-> S1, ret |-> FALSE ]
      ELSE IF ~Readable(pem.key) \/ ~Readable(pem.cert)
      THEN [ s |-> S1, ret |-> FALSE ]
      ELSE LET S2 == initOrUpdateSNIServer(S1)
               S3 == [ S2 EXCEPT !.proxies[domain].certPath = pem.cert,
                                 !.proxies[domain].keyPath = pem.key,
                                 !.proxies[domain].isRunning = TRUE ]
           IN  [ s |-> saveProxies(S3), ret |-> TRUE ]

\* ProxyService.startProxy; ret is what the caller gets back.  The Promise
\* that initOrUpdateSNIServer returns is always truthy.
startProxy(S, domain, pem) ==
  IF domain \notin DOMAIN S.proxies THEN [ s |-> S, ret |-> FALSE ]
  ELSE IF ~Readable(pem.key) \/ ~Readable(pem.cert) THEN [ s |-> S, ret |-> FALSE ]
  ELSE
    LET S1 == [ S EXCEPT !.sniCertificates =
                  MapSet(S.sniCertificates, domain,
                         [ key |-> pem.key, cert |-> pem.cert ]) ]
        S2 == initOrUpdateSNIServer(S1)
        S3 == [ S2 EXCEPT !.proxies[domain].certPath = pem.cert,
                          !.proxies[domain].keyPath = pem.key,
                          !.proxies[domain].isRunning = TRUE ]
    IN  [ s |-> saveProxies(S3), ret |-> TRUE ]

\* stopProxy that stops the server whenever there is one
stopProxyAndServer(S, domain) ==
  LET S1 == [ S EXCEPT !.sniCertificates = MapDelete(S.sniCertificates, domain) ]
      S2 == IF domain \in DOMAIN S1.proxies
            THEN [ S1 EXCEPT !.proxies[domain].isRunning = FALSE ]
            ELSE S1
  IN  [ s |-> saveProxies(stopSNIServer(S2)), ret |-> TRUE ]

\* ProxyService.stopProxy
stopProxy(S, domain) ==
  LET S1 == [ S EXCEPT !.sniCertificates = MapDelete(S.sniCertificates, domain) ]
      S2 == IF domain \in DOMAIN S1.proxies
            THEN [ S1 EXCEPT !.proxies[domain].isRunning = FALSE ]
            ELSE S1
      S3 == IF Running(S2.proxies) = {} /\ S2.sniServer # 0
            THEN stopSNIServer(S2)
            ELSE IF S2.sniServer # 0 THEN initOrUpdateSNIServer(S2)
            ELSE S2
  IN  [ s |-> saveProxies(S3), ret |-> TRUE ]

\* removeProxy without its closing saveProxies: proxies.json keeps what the
\* inner stopProxy wrote
removeProxyUnsaved(S, domain) ==
  LET S1 == stopProxy(S, domain).s
      S2 == [ S1 EXCEPT !.proxies = MapDelete(S1.proxies, domain),
                        !.sniCertificates = MapDelete(S1.sniCertificates, domain) ]
      S3 == IF DOMAIN S2.sniCertificates = {} /\ S2.sniServer # 0
            THEN stopSNIServer(S2) ELSE S2
  IN  [ s |-> S3, ret |-> domain \in DOMAIN S1.proxies ]

\* ProxyService.removeProxy
removeProxy(S, domain) ==
  LET S1 == stopProxy(S, domain).s
      S2 == [ S1 EXCEPT !.proxies = MapDelete(S1.proxies, domain),
                        !.sniCertificates = MapDelete(S1.sniCertificates, domain) ]
      S3 == IF DOMAIN S2.sniCertificates = {} /\ S2.sniServer # 0
            THEN stopSNIServer(S2) ELSE S2
  IN  [ s |-> saveProxies(S3), ret |-> domain \in DOMAIN S1.proxies ]

\* stopAllProxies that leaves the shared server as it is
stopAllKeepingServer(S) ==
  saveProxies([ S EXCEPT
                  !.sniCertificates = EmptyMap,
                  !.proxies = [ d \in DOMAIN S.proxies |->
                                  [ S.proxies[d] EXCEPT !.isRunning = FALSE ] ] ])

\* ProxyService.stopAllProxies
stopAllProxies(S) ==
  LET S1 == [ S EXCEPT
                !.sniCertificates = EmptyMap,
                !.proxies = [ d \in DOMAIN S.proxies |->
                                [ S.proxies[d] EXCEPT !.isRunning = FALSE ] ] ]
  IN  saveProxies(stopSNIServer(S1))

\* ProxyService.updateProxy with newConfig = { target, port }; an absent
\* field is undefined, and Object.assign copies it as it is.
updateProxy(S, domain, target, port) ==
  IF domain \notin DOMAIN S.proxies THEN [ s |-> S, ret |-> FALSE ]
  ELSE
    LET newTarget == IF target # NoTarget THEN NormalizeTarget(target) ELSE target
        S1 == [ S EXCEPT !.proxies[domain].target = newTarget,
                         !.proxies[domain].port = port ]
        config == S1.proxies[domain]
        S2 == IF config.isRunning /\ newTarget # NoTarget
              THEN LET stopped == stopProxy(S1, domain).s
                   IN  IF config.certPath # NoPath /\ config.keyPath # NoPath
                       THEN startProxy(stopped, domain,
                                       [ cert |-> config.certPath,
                                         key |-> config.keyPath ]).s
                       ELSE stopped
              ELSE S1
    IN  [ s |-> saveProxies(S2), ret |-> TRUE ]

\* The request handler of the shared server: req.headers.host?.split(':')[0],
\* then the route lookup.  status 0 stands for "handed to handleProxyRequest".
HostName(host) ==
  IF host = << >> THEN << >>
  ELSE LET colons == { i \in 1..Len(host) : host[i] = ":" }
       IN  IF colons = {} THEN host ELSE SubSeq(host, 1, Min(colons) - 1)

\* the callback that answers with the first certificate of the table, as
\* createSecureContext() picks its default
SNICallbackFirst(certs, servername) ==
  IF DOMAIN certs = {} THEN [ err |-> TRUE, context |-> NoContext ]
  ELSE LET first == CHOOSE d \in DOMAIN certs : TRUE
       IN  [ err |-> FALSE,
             context |-> [ key |-> certs[first].key, cert |-> certs[first].cert ] ]

\* SNICallback of the shared server: this.sniCertificates.get(servername),
\* then cb(null, tls.createSecureContext({key, cert})) or cb(new Error(...))
SNICallback(certs, servername) ==
  IF servername \in DOMAIN certs
  THEN [ err |-> FALSE,
         context |-> [ key |-> certs[servername].key,
                       cert |-> certs[servername].cert ] ]
  ELSE [ err |-> TRUE, context |-> NoContext ]

\* the request handler without its test of isRunning
handleRequestRegistered(S, host) ==
  LET hostname == HostName(host)
  IN  IF hostname = << >> THEN [ status |-> 400, target |-> NoTarget ]
      ELSE IF hostname \notin DOMAIN S.proxies
      THEN [ status |-> 404, target |-> NoTarget ]
      ELSE [ status |-> 0, target |-> S.proxies[hostname].target ]

handleRequest(S, host) ==
  LET hostname == HostName(host)
  IN  IF hostname = << >> THEN [ status |-> 400, target |-> NoTarget ]
      ELSE IF hostname \notin DOMAIN S.proxies \/ ~S.proxies[hostname].isRunning
      THEN [ status |-> 404, target |-> NoTarget ]
      ELSE [ status |-> 0, target |-> S.proxies[hostname].target ]

(***************************************************************************)
(* CertificateManager.  certsDir maps a file name (the domain followed by  *)
(* its extension) to the file's content.  A certificate is the record of   *)
(* what the checks read from it: subject CN, the DNS names of its          *)
(* subjectAltName extension, notBefore and notAfter.                       *)
(***************************************************************************)
CertDomains == { << "a.local" >>, << "b.local" >> }
LongerName == << "a.local", ".dev" >>

FileName(domain, ext) == domain \o << ext >>
CrtPath(domain) == FileName(domain, ".crt")
KeyPath(domain) == FileName(domain, ".key")
CsrPath(domain) == FileName(domain, ".csr")
CnfPath(domain) == FileName(domain, ".cnf")

NoNames == << >>
Certificate(cn, sans, notBefore, notAfter) ==
  [ kind |-> "crt", cn |-> cn, sans |-> sans,
    notBefore |-> notBefore, notAfter |-> notAfter ]
OtherFile(kind, cn, sans) ==
  [ kind |-> kind, cn |-> cn, sans |-> sans, notBefore |-> 0, notAfter |-> 0 ]

\* the file system's answer to fs.access
Exists(dir, path) == path \in DOMAIN dir

\* null, and a CertificateInfo
NullInfo ==
  [ present |-> FALSE, domain |-> << >>, validFrom |-> 0, validTo |-> 0,
    isValid |-> FALSE, certFilePath |-> << >>, keyFilePath |-> << >> ]
CertificateInfo(domain, validFrom, validTo, isValid) ==
  [ present |-> TRUE, domain |-> domain, validFrom |-> validFrom,
    validTo |-> validTo, isValid |-> isValid,
    certFilePath |-> CrtPath(domain), keyFilePath |-> KeyPath(domain) ]

\* String.prototype.includes: pat occurs in text as a contiguous run
Includes(text, pat) ==
  \E i \in 1..(Len(text) - Len(pat) + 1) :
    SubSeq(text, i, i + Len(pat) - 1) = pat

\* what `openssl x509 -noout -ext subjectAltName` prints for the names
RECURSIVE JoinDNS(_)
JoinDNS(sans) ==
  IF sans = << >> THEN << >>
  ELSE IF Len(sans) = 1 THEN << "DNS:" >> \o Head(sans)
  ELSE << "DNS:" >> \o Head(sans) \o << ", " >> \o JoinDNS(Tail(sans))
SubjectAltNameText(sans) ==
  << "X509v3 Subject Alternative Name: ", "\n", "    " >> \o JoinDNS(sans) \o << "\n" >>

\* a config file whose alt_names section names nothing
configWithoutAltNames(domain) == OtherFile("cnf", domain, NoNames)

\* CertificateManager.generateOpenSSLConfig: CN = domain, DNS.1 = domain
generateOpenSSLConfig(domain) == OtherFile("cnf", domain, << domain >>)

\* CertificateManager.parseCertificate (OpenSSL build)
parseCertificate(dir, now, domain) ==
  IF ~Exists(dir, CrtPath(domain)) \/ ~Exists(dir, KeyPath(domain)) THEN NullInfo
  \* `openssl x509 -in` fails on a file that holds no certificate
  ELSE IF dir[CrtPath(domain)].kind # "crt" THEN NullInfo
  ELSE
    LET cert == dir[CrtPath(domain)]
        subjectAltNames == SubjectAltNameText(cert.sans)
        domainIncluded == Includes(subjectAltNames, << "DNS:" >> \o domain)
        isValid == now >= cert.notBefore /\ now <= cert.notAfter /\ domainIncluded
    IN  CertificateInfo(domain, cert.notBefore, cert.notAfter, isValid)

\* CertificateManager.getSubjectAltNames (node-forge build)
getSubjectAltNames(cert) == { cert.sans[i] : i \in 1..Len(cert.sans) }

\* CertificateManager.verifyCertificate (node-forge build)
forgeVerifyCertificate(dir, now, domain) ==
  IF ~Exists(dir, CrtPath(domain)) \/ ~Exists(dir, KeyPath(domain)) THEN NullInfo
  \* forge.pki.certificateFromPem throws on a file that holds no certificate
  ELSE IF dir[CrtPath(domain)].kind # "crt" THEN NullInfo
  ELSE
    LET cert == dir[CrtPath(domain)]
        isValid == now >= cert.notBefore /\ now <= cert.notAfter
        domainIncluded == domain \in getSubjectAltNames(cert) \/ cert.cn = domain
    IN  CertificateInfo(domain, cert.notBefore, cert.notAfter,
                        isValid /\ domainIncluded)

\* CertificateManager.verifyCertificate
verifyCertificate(b, dir, now, domain) ==
  IF b = "openssl"
  THEN IF ~Exists(dir, CrtPath(domain)) \/ ~Exists(dir, KeyPath(domain))
       THEN NullInfo
       ELSE parseCertificate(dir, now, domain)
  ELSE forgeVerifyCertificate(dir, now, domain)

\* the validity `-days 365` gives, in clock units
CertDays == 2

Result(dir, ok, info) == [ dir |-> dir, ok |-> ok, info |-> info ]

\* CertificateManager.createCertificate (OpenSSL build); failAt names the
\* command that fails, "none" when every command succeeds
opensslCreateCertificate(dir, now, domain, failAt, ready) ==
  IF ~ready THEN Result(dir, FALSE, NullInfo)
  ELSE
    LET d1 == MapSet(dir, CnfPath(domain), generateOpenSSLConfig(domain))
        d2 == MapSet(d1, KeyPath(domain), OtherFile("key", domain, NoNames))
        d3 == MapSet(d2, CsrPath(domain), OtherFile("csr", domain, NoNames))
        d4 == MapSet(d3, CrtPath(domain),
                     Certificate(d3[CsrPath(domain)].cn, d3[CnfPath(domain)].sans,
                                 now, now + CertDays))
        d5 == MapDelete(MapDelete(d4, CsrPath(domain)), CnfPath(domain))
        certInfo == parseCertificate(d5, now, domain)
    IN  CASE failAt = "writeFile" -> Result(dir, FALSE, NullInfo)
          [] failAt = "genrsa" -> Result(d1, FALSE, NullInfo)
          [] failAt = "req" -> Result(d2, FALSE, NullInfo)
          [] failAt = "x509" -> Result(d3, FALSE, NullInfo)
          [] OTHER -> Result(d5, certInfo.present, certInfo)

\* CertificateManager.createCertificateWithMkcert (node-forge build)
createCertificateWithMkcert(dir, now, domain, failAt) ==
  LET d1 == MapSet(MapSet(dir, CrtPath(domain),
                          Certificate(domain, << domain >>, now, now + CertDays)),
                   KeyPath(domain), OtherFile("key", domain, NoNames))
      certInfo == forgeVerifyCertificate(d1, now, domain)
  IN  IF failAt # "none" THEN Result(dir, FALSE, NullInfo)
      ELSE Result(d1, certInfo.present, certInfo)

\* CertificateManager.createCertificateWithForge (node-forge build)
createCertificateWithForge(dir, now, domain, failAt) ==
  LET d1 == MapSet(dir, CrtPath(domain),
                   Certificate(domain, << domain >>, now, now + CertDays))
      d2 == MapSet(d1, KeyPath(domain), OtherFile("key", domain, NoNames))
  IN  CASE failAt = "writeFile" -> Result(dir, FALSE, NullInfo)
        [] failAt = "writeKey" -> Result(d1, FALSE, NullInfo)
        [] OTHER -> Result(d2, TRUE,
                           CertificateInfo(domain, now, now + CertDays, TRUE))

\* the commands of createCertificate that may fail
FailPoints(b, mkcert) ==
  IF b = "openssl" THEN { "none", "writeFile", "genrsa", "req", "x509" }
  ELSE IF mkcert THEN { "none", "mkcert" }
  ELSE { "none", "writeFile", "writeKey" }

\* CertificateManager.createCertificate
createCertificate(b, dir, now, domain, failAt, ready, mkcert) ==
  IF b = "openssl" THEN opensslCreateCertificate(dir, now, domain, failAt, ready)
  ELSE IF mkcert THEN createCertificateWithMkcert(dir, now, domain, failAt)
  ELSE createCertificateWithForge(dir, now, domain, failAt)

\* CertificateManager.deleteCertificate
deleteCertificate(b, dir, now, domain) ==
  LET certInfo == verifyCertificate(b, dir, now, domain)
  IN  IF ~certInfo.present THEN Result(dir, FALSE, NullInfo)
      ELSE Result(MapDelete(MapDelete(dir, certInfo.certFilePath),
                            certInfo.keyFilePath),
                  TRUE, NullInfo)

(***************************************************************************)
(* The root CA.  rootCA.key and rootCA.cert are 0 while the file is not in *)
(* the ca directory; otherwise key is the number of the key that openssl   *)
(* genrsa wrote (every run writes a new random key) and cert the number of *)
(* the key the certificate was made from.  keys counts the keys written so *)
(* far, pairs the runs that completed both commands, and first is the key  *)
(* of the first completed pair.                                            *)
(***************************************************************************)
NoRoot == [ key |-> 0, cert |-> 0, keys |-> 0, pairs |-> 0, first |-> 0 ]
IssuedRoot == [ key |-> 1, cert |-> 1, keys |-> 1, pairs |-> 1, first |-> 1 ]

\* fs.access(caKeyPath) and fs.access(caCertPath) both succeed
RootExists(root) == root.key # 0 /\ root.cert # 0

\* the commands of the root generation that may fail
RootFailPoints == { "none", "genrsa", "req" }

\* `openssl genrsa -out rootCA.key` followed by `openssl req -x509 -new -key
\* rootCA.key -out rootCA.crt`
GenerateRoot(root, failAt) ==
  LET keyed == [ root EXCEPT !.key = root.keys + 1, !.keys = root.keys + 1 ]
      signed == [ keyed EXCEPT !.cert = keyed.key, !.pairs = root.pairs + 1,
                               !.first = IF root.first = 0 THEN keyed.key
                                         ELSE root.first ]
  IN  CASE failAt = "genrsa" -> [ root |-> root, ok |-> FALSE ]
        [] failAt = "req" -> [ root |-> keyed, ok |-> FALSE ]
        [] OTHER -> [ root |-> signed, ok |-> TRUE ]

\* an initLocalCA without the check for an existing CA
initLocalCAAlways(root, failAt) == GenerateRoot(root, failAt)

\* CertificateManager.initLocalCA
initLocalCA(root, failAt) ==
  IF RootExists(root) THEN [ root |-> root, ok |-> TRUE ]
  ELSE GenerateRoot(root, failAt)

\* CAGenerator.generateCA
generateCA(root, failAt) ==
  IF RootExists(root) THEN [ root |-> root, ok |-> TRUE ]
  ELSE GenerateRoot(root, failAt)

\* CertificateManager.initialize: installed is the answer of `openssl
\* version`; the node-forge build creates no root CA of its own
initialize(b, root, installed, failAt) ==
  IF b # "openssl" THEN [ root |-> root, ok |-> TRUE, hasOpenSSL |-> FALSE ]
  ELSE IF ~installed THEN [ root |-> root, ok |-> FALSE, hasOpenSSL |-> FALSE ]
  ELSE LET r == initLocalCA(root, failAt)
       IN  [ root |-> r.root, ok |-> r.ok, hasOpenSSL |-> TRUE ]

\* String.prototype.endsWith and String.prototype.replace(ext, ''), on a file
\* name held as the pieces between which an extension may stand: replace
\* removes the first occurrence only
EndsWith(file, ext) == Len(file) > 0 /\ file[Len(file)] = ext
RECURSIVE ReplaceFirst(_, _)
ReplaceFirst(file, ext) ==
  IF file = << >> THEN << >>
  ELSE IF Head(file) = ext THEN Tail(file)
  ELSE << Head(file) >> \o ReplaceFirst(Tail(file), ext)

\* CertificateManager.listCertificates: the records pushed, each under the
\* file of readdir it was pushed for; readable is whether readdir succeeds
listCertificates(b, dir, now, readable) ==
  IF ~readable THEN << >>
  ELSE
    LET certFiles == { file \in DOMAIN dir : EndsWith(file, ".crt") }
        certInfo(certFile) ==
          verifyCertificate(b, dir, now, ReplaceFirst(certFile, ".crt"))
        pushed == { certFile \in certFiles : certInfo(certFile).present }
    IN  [ certFile \in pushed |-> certInfo(certFile) ]

\* no createCertificate in flight
NoIssuing == << >>

NoCertCall ==
  [ op |-> "none", domain |-> << >>, ok |-> FALSE, info |-> NullInfo,
    afterCreate |-> FALSE, rootExisted |-> FALSE, list |-> << >> ]

(***************************************************************************)
(* The hosts registry as a state machine: one action per public operation, *)
(* run one at a time.  `last` records the latest call: its arguments, what *)
(* it returned and the file before it; for a removeHost that directly      *)
(* follows a successful addHost of the same entry, also the file before    *)
(* that addHost.                                                           *)
(***************************************************************************)
EmptyLine == <<>>

\* Lines an initial hosts file may hold: blank, both identifiers, an
\* uncommented and a commented entry, the same domain under another loopback
\* address, an entry with irregular spacing and an alias, an entry that is
\* not loopback, an identifier followed by whitespace.  (An identifier or a
\* commented entry with nothing of ours below it is a plain comment.)
InitLines ==
  { EmptyLine,
    APP_IDENTIFIER,
    DISABLED_IDENTIFIER,
    << "127.0.0.1", " ", "a.local" >>,
    << "#", " ", "127.0.0.1", " ", "a.local" >>,
    << "::1", " ", "a.local" >>,
    << " ", "127.0.0.1", " ", " ", "b.local", " ", "alias", " " >>,
    << "10.0.0.1", " ", "b.local" >>,
    << "#", " ", "@axlotl-lab/navigrator", " " >> }

InitFiles == UNION { [ 1..n -> InitLines ] : n \in 1..MaxInitLines }

NoCall ==
  [ op |-> "none", domain |-> <<>>, ip |-> <<>>, disable |-> FALSE,
    ret |-> FALSE, count |-> 0, written |-> FALSE, before |-> <<>>,
    afterAdd |-> FALSE, beforeAdd |-> <<>>,
    afterToggle |-> FALSE, thrown |-> FALSE, readable |-> TRUE, status |-> 0 ]

\* this call is a removeHost that directly follows a successful addHost of
\* the same domain and ip
FollowsAdd(op, domain, ip) ==
  /\ op = "removeHost"
  /\ last.op = "addHost" /\ last.ret
  /\ last.domain = domain /\ last.ip = ip

\* this call is a toggleHostState that directly follows the opposite
\* toggleHostState of the same domain and ip, which wrote the file
FollowsToggle(op, domain, ip, disable) ==
  /\ op = "toggleHostState"
  /\ last.op = "toggleHostState" /\ last.disable # disable
  /\ last.domain = domain /\ last.ip = ip
  /\ last.written

Call(op, domain, ip, disable, r, count) ==
  [ op |-> op, domain |-> domain, ip |-> ip, disable |-> disable,
    ret |-> r.ret, count |-> count, written |-> r.written,
    before |-> hostsFile,
    afterAdd |-> FollowsAdd(op, domain, ip),
    beforeAdd |-> IF FollowsAdd(op, domain, ip) THEN last.before ELSE <<>>,
    afterToggle |-> FollowsToggle(op, domain, ip, disable),
    thrown |-> FALSE, readable |-> TRUE, status |-> 0 ]

\* no call in flight
NoPending == [ start |-> << >>, calls |-> << >>, overlapped |-> FALSE ]

HostsInit ==
  /\ hostsFile \in InitFiles
  /\ last = NoCall
  /\ pending = NoPending
  /\ proxies = EmptyMap /\ sniServer = 0 /\ sniCertificates = EmptyMap
  /\ servers = << >> /\ savedProxies = EmptyMap /\ plast = NoProxyCall /\ conn = NoConn
  /\ build = "openssl" /\ hasOpenSSL = FALSE /\ hasMkcert = FALSE
  /\ certsDir = EmptyMap /\ clock = 0 /\ clast = NoCertCall /\ issuing = NoIssuing /\ rootCA = IssuedRoot

AddHost ==
  \E domain \in Domains, ip \in Ips :
    LET r == addHost(hostsFile, domain, ip)
    IN  /\ Len(r.lines) <= MaxFileLen
        /\ hostsFile' = r.lines
        /\ last' = Call("addHost", domain, ip, FALSE, r, 0)
        /\ UNCHANGED << pending, proxyVars, certVars >>

AdoptHost ==
  \E domain \in Domains, ip \in Ips :
    LET r == adoptHost(hostsFile, domain, ip)
    IN  /\ Len(r.lines) <= MaxFileLen
        /\ hostsFile' = r.lines
        /\ last' = Call("adoptHost", domain, ip, FALSE, r, 0)
        /\ UNCHANGED << pending, proxyVars, certVars >>

ImportAllLocalHosts ==
  LET r == importAllLocalHosts(hostsFile)
  IN  /\ Len(r.lines) <= MaxFileLen
      /\ hostsFile' = r.lines
      /\ last' = Call("importAllLocalHosts", <<>>, <<>>, FALSE, r, r.count)
      /\ UNCHANGED << pending, proxyVars, certVars >>

ToggleHostState ==
  \E domain \in Domains, ip \in Ips, disable \in BOOLEAN :
    LET r == toggleHostState(hostsFile, domain, disable, ip)
    IN  /\ hostsFile' = r.lines
        /\ last' = Call("toggleHostState", domain, ip, disable, r, 0)
        /\ UNCHANGED << pending, proxyVars, certVars >>

RemoveHost ==
  \E domain \in Domains, ip \in Ips :
    LET r == removeHost(hostsFile, domain, ip)
    IN  /\ hostsFile' = r.lines
        /\ last' = Call("removeHost", domain, ip, FALSE, r, 0)
        /\ UNCHANGED << pending, proxyVars, certVars >>

HostsNext ==
  \/ AddHost
  \/ AdoptHost
  \/ ImportAllLocalHosts
  \/ ToggleHostState
  \/ RemoveHost

SpecHosts == HostsInit /\ [][HostsNext]_vars

(***************************************************************************)
(* Vocabulary of the hosts claims                                          *)
(***************************************************************************)
IsIdentifier(line) ==
  Trim(line) = APP_IDENTIFIER \/ Trim(line) = DISABLED_IDENTIFIER

\* the text of a data line with its comment character, if any, removed
Uncommented(line) ==
  IF StartsWithHash(Trim(line)) THEN Trim(Substring1(Trim(line))) ELSE Trim(line)

\* a data line: `ip domain ...`, plain or commented out with one '#'
IsDataLine(line) ==
  ~IsIdentifier(line) /\ Len(Split(Uncommented(line))) >= 2

\* the data line of a managed two-line block: an identifier directly below
BlockAt(lines, i) ==
  i \in 1..(Len(lines) - 1) /\ IsDataLine(lines[i]) /\ IsIdentifier(lines[i + 1])

\* the lines (plain or commented out) that name ip and domain
DataLinesFor(lines, ip, domain) ==
  { i \in 1..Len(lines) :
      ~IsIdentifier(lines[i]) /\ PartsMatch(Uncommented(lines[i]), ip, domain) }

\* the lines (plain or commented out) whose domain is `domain`, any ip
LinesNaming(lines, domain) ==
  { i \in 1..Len(lines) :
      LET parts == Split(Uncommented(lines[i]))
      IN  ~IsIdentifier(lines[i]) /\ Len(parts) >= 2 /\ parts[2] = domain }

EntriesOf(lines) == { readHosts(lines)[k] : k \in 1..Len(readHosts(lines)) }

\* `lines` with the positions of S deleted
RECURSIVE DropAt(_, _, _)
DropAt(lines, S, i) ==
  IF i > Len(lines) THEN <<>>
  ELSE (IF i \in S THEN <<>> ELSE << lines[i] >>) \o DropAt(lines, S, i + 1)

\* `after` is `before` with active identifiers inserted, each directly below
\* an uncommented data line that had no identifier below it
SentinelsInserted(before, after) ==
  \E S \in SUBSET (2..Len(after)) :
    /\ S # {}
    /\ DropAt(after, S, 1) = before
    /\ \A p \in S :
         /\ after[p] = APP_IDENTIFIER
         /\ p - 1 \notin S
         /\ IsDataLine(after[p - 1]) /\ ~StartsWithHash(Trim(after[p - 1]))
         /\ (p < Len(after) /\ p + 1 \notin S) => ~IsIdentifier(after[p + 1])

BlockAppended(before, after) ==
  \E ip \in Ips, domain \in Domains :
    after = before \o << DataLine(ip, domain), APP_IDENTIFIER >>

BlockRewritten(before, after) ==
  \E i \in 1..Len(before) :
    /\ BlockAt(before, i)
    /\ Len(after) = Len(before)
    /\ \A j \in 1..Len(before) : j \notin { i, i + 1 } => after[j] = before[j]

BlockDeleted(before, after) ==
  \E i \in 1..Len(before) :
    BlockAt(before, i) /\ after = RemoveTwo(before, i)

\* C1: every call leaves the file unchanged, appends one new block, inserts
\* identifiers below unmanaged data lines (one per adoption), rewrites the two
\* lines of one managed block, or deletes the two lines of one managed block;
\* so every line outside a managed block stays as it is, in the same order.
C1_ForeignLinesKept ==
  last.op # "none" =>
    \/ hostsFile = last.before
    \/ BlockAppended(last.before, hostsFile)
    \/ /\ SentinelsInserted(last.before, hostsFile)
       /\ last.op # "importAllLocalHosts" => Len(hostsFile) = Len(last.before) + 1
    \/ BlockRewritten(last.before, hostsFile)
    \/ BlockDeleted(last.before, hostsFile)

\* a removeHost deleted a managed block that stood between foreign lines
C1_Witness ==
  /\ last.op = "removeHost" /\ last.ret
  /\ Len(hostsFile) >= 2
  /\ \E i \in 2..(Len(last.before) - 2) :
       hostsFile = RemoveTwo(last.before, i) /\ ~BlockAt(last.before, i - 1)

\* C2: after addHost(d) with the default ip returned true, readHosts() holds
\* an entry 127.0.0.1 d that is managed and not disabled.
C2_AddThenReadManaged ==
  (last.op = "addHost" /\ last.ip = DefaultIp /\ last.ret) =>
    \E h \in EntriesOf(hostsFile) :
      /\ h.ip = DefaultIp /\ h.domain = last.domain
      /\ h.isCreatedByUs /\ ~h.isDisabled

\* addHost(d) returned true after re-enabling an entry that was disabled
C2_Witness ==
  /\ last.op = "addHost" /\ last.ip = DefaultIp /\ last.ret /\ last.written
  /\ \E h \in EntriesOf(last.before) :
       h.ip = DefaultIp /\ h.domain = last.domain /\ h.isDisabled

\* the managed entries for (ip, domain) that readHosts() reports
ManagedEntries(lines, ip, domain) ==
  { h \in EntriesOf(lines) : h.ip = ip /\ h.domain = domain /\ h.isCreatedByUs }

C4_AddRemoveLeavesNoEntry ==
  (last.op = "removeHost" /\ last.afterAdd /\ last.ip = DefaultIp) =>
    \A h \in EntriesOf(hostsFile) : h.domain # last.domain

\* C4 as amended: after addHost(d) followed by removeHost(d), removeHost has
\* returned true and readHosts() holds no entry whose domain is d, provided
\* the file before addHost held no line with domain d other than at most one
\* (plain or commented-out) line for 127.0.0.1 d.
C4_AddRemoveLeavesNoEntryOfOurs ==
  (/\ last.op = "removeHost" /\ last.afterAdd /\ last.ip = DefaultIp
   /\ LinesNaming(last.beforeAdd, last.domain)
        = DataLinesFor(last.beforeAdd, DefaultIp, last.domain)
   /\ Cardinality(LinesNaming(last.beforeAdd, last.domain)) <= 1) =>
    /\ last.ret
    /\ \A h \in EntriesOf(hostsFile) : h.domain # last.domain

\* removeHost(d) ran directly after an addHost(d) that adopted a foreign line
C4_Witness ==
  /\ last.op = "removeHost" /\ last.afterAdd /\ last.ip = DefaultIp /\ last.ret
  /\ Cardinality(LinesNaming(last.beforeAdd, last.domain)) = 1
  /\ Len(last.before) = Len(last.beforeAdd) + 1

\* C5: when readHosts() already reports an entry for (ip, domain), managed or
\* foreign, enabled or disabled, addHost(domain, ip) adds no line naming
\* (ip, domain); when that entry is managed and enabled, addHost returns true
\* and does not write the file.
C5_AddNoDuplicate ==
  LET hosts == readHosts(last.before)
      held == { k \in 1..Len(hosts) :
                  hosts[k].ip = last.ip /\ hosts[k].domain = last.domain }
  IN  (last.op = "addHost" /\ held # {}) =>
        /\ Cardinality(DataLinesFor(hostsFile, last.ip, last.domain))
             = Cardinality(DataLinesFor(last.before, last.ip, last.domain))
        /\ (hosts[Min(held)].isCreatedByUs /\ ~hosts[Min(held)].isDisabled) =>
             (last.ret /\ ~last.written /\ hostsFile = last.before)

\* addHost was called on an entry that was already managed and enabled
C5_Witness ==
  /\ last.op = "addHost" /\ last.ret /\ ~last.written
  /\ \E h \in EntriesOf(last.before) :
       /\ h.ip = last.ip /\ h.domain = last.domain
       /\ h.isCreatedByUs /\ ~h.isDisabled

(***************************************************************************)
(* ProxyService as a state machine: one action per public method, one per  *)
(* event of the shared server, one for a restart of the process.           *)
(***************************************************************************)
MaxServers == 3

\* Host headers a client may send; the first is a request without one
NoHost == << >>
EmptyHost == << ":", "443" >>
OtherDomain == << "c.local" >>
HostHeaders ==
  { NoHost, EmptyHost, OtherDomain }
    \cup Domains
    \cup { d \o << ":", "443" >> : d \in Domains }

\* proxies.json as a previous process may have left it
SavedRoute(domain, isRunning) ==
  [ domain |-> domain, target |-> << HttpScheme, "localhost:3000" >>,
    port |-> DefaultProxyPort, isRunning |-> isRunning,
    certPath |-> IF isRunning THEN PemOf(domain).cert ELSE NoPath,
    keyPath |-> IF isRunning THEN PemOf(domain).key ELSE NoPath ]
InitSaved ==
  { EmptyMap }
    \cup { [ d \in { << "a.local" >> } |-> SavedRoute(d, r) ] : r \in BOOLEAN }

\* listen() settles on the next tick, before any other call is served
Settled == \A i \in 1..Len(servers) : servers[i].status # "binding"

Install(S) ==
  /\ Len(S.servers) <= MaxServers
  /\ proxies' = S.proxies
  /\ sniServer' = S.sniServer
  /\ sniCertificates' = S.sniCertificates
  /\ servers' = S.servers
  /\ savedProxies' = S.savedProxies
  /\ UNCHANGED conn

ProxyCall(op, domain, ret) ==
  [ NoProxyCall EXCEPT !.op = op, !.domain = domain, !.ret = ret,
                       !.serverBefore = sniServer,
                       !.createdBefore = Len(servers),
                       !.runningBefore = Running(proxies),
                       !.connBefore = conn.stage ]

\* the certificates directory once a certificate has been issued for each
\* domain at time 0
IssuedPems ==
  [ f \in UNION { { CrtPath(d), KeyPath(d) } : d \in Domains } |->
      LET d == CHOOSE x \in Domains : f \in { CrtPath(x), KeyPath(x) }
      IN  IF f = CrtPath(d)
          THEN Certificate(d, << d >>, 0, CertDays)
          ELSE OtherFile("key", d, NoNames) ]

ProxyInit ==
  /\ hostsFile = << EmptyLine >>
  /\ last = NoCall
  /\ pending = NoPending
  /\ savedProxies \in InitSaved
  /\ proxies = loadProxies(savedProxies)
  /\ sniServer = 0
  /\ sniCertificates = EmptyMap
  /\ servers = << >>
  /\ plast = NoProxyCall /\ conn = NoConn
  /\ build = "openssl" /\ hasOpenSSL = FALSE /\ hasMkcert = FALSE
  /\ certsDir = IssuedPems /\ clock = 0 /\ clast = NoCertCall /\ issuing = NoIssuing /\ rootCA = IssuedRoot

AddProxy ==
  \E domain \in Domains, target \in Targets, port \in Ports :
    /\ Settled
    /\ Install(addProxy(Current, domain, target, port))
    /\ plast' = [ ProxyCall("addProxy", domain, TRUE) EXCEPT
                    !.target = target, !.port = port ]
    /\ UNCHANGED << hostVars, certVars >>

RemoveProxy ==
  \E domain \in Domains :
    LET r == removeProxy(Current, domain)
    IN  /\ Settled
        /\ Install(r.s)
        /\ plast' = ProxyCall("removeProxy", domain, r.ret)
        /\ UNCHANGED << hostVars, certVars >>

StartProxy ==
  \E domain \in Domains :
    \E pem \in PemPairs(domain) :
      LET r == startProxy(Current, domain, pem)
      IN  /\ Settled
          /\ Install(r.s)
          /\ plast' = [ ProxyCall("startProxy", domain, r.ret) EXCEPT
                          !.certPath = pem.cert, !.keyPath = pem.key ]
          /\ UNCHANGED << hostVars, certVars >>

StopProxy ==
  \E domain \in Domains :
    LET r == stopProxy(Current, domain)
    IN  /\ Settled
        /\ Install(r.s)
        /\ plast' = ProxyCall("stopProxy", domain, r.ret)
        /\ UNCHANGED << hostVars, certVars >>

StopAllProxies ==
  /\ Settled
  /\ Install(stopAllProxies(Current))
  /\ plast' = ProxyCall("stopAllProxies", << >>, TRUE)
  /\ UNCHANGED << hostVars, certVars >>

UpdateProxy ==
  \E domain \in Domains, target \in Targets \cup { NoTarget }, port \in Ports :
    LET r == updateProxy(Current, domain, target, port)
    IN  /\ target # NoTarget \/ port # NoPort
        /\ Settled
        /\ Install(r.s)
        /\ plast' = [ ProxyCall("updateProxy", domain, r.ret) EXCEPT
                        !.target = target, !.port = port ]
        /\ UNCHANGED << hostVars, certVars >>

\* the 'listening' event of the server that was told to listen
ListenOk ==
  /\ sniServer # 0
  /\ servers[sniServer].status = "binding"
  /\ servers' = [ servers EXCEPT ![sniServer].status = "listening" ]
  /\ plast' = [ plast EXCEPT !.op = "listening",
                              !.afterStart = (plast.op = "startProxy") ]
  /\ UNCHANGED << proxies, sniServer, sniCertificates, savedProxies, conn >>
  /\ UNCHANGED << hostVars, certVars >>

\* the 'error' event with EADDRINUSE: the handler writes two log lines
ListenError ==
  /\ sniServer # 0
  /\ servers[sniServer].status = "binding"
  /\ servers' = [ servers EXCEPT ![sniServer].status = "failed" ]
  /\ plast' = [ plast EXCEPT !.op = "listenError",
                              !.afterStart = (plast.op = "startProxy") ]
  /\ UNCHANGED << proxies, sniServer, sniCertificates, savedProxies, conn >>
  /\ UNCHANGED << hostVars, certVars >>

\* a request arrives at the listening server
Request ==
  \E host \in HostHeaders :
    LET r == handleRequest(Current, host)
    IN  /\ sniServer # 0
        /\ servers[sniServer].status = "listening"
        /\ plast' = [ ProxyCall("request", HostName(host), TRUE) EXCEPT
                        !.status = r.status, !.target = r.target,
                        !.host = host,
                        !.afterStop = /\ plast.op = "stopProxy"
                                      /\ plast.domain = HostName(host) ]
        /\ UNCHANGED << proxies, sniServer, sniCertificates, servers,
                        savedProxies, conn >>
        /\ UNCHANGED << hostVars, certVars >>

\* the process ends and a new ProxyService is constructed
Restart ==
  /\ Settled
  /\ proxies' = loadProxies(savedProxies)
  /\ sniServer' = 0
  /\ sniCertificates' = EmptyMap
  /\ servers' = [ i \in 1..Len(servers) |->
                    [ servers[i] EXCEPT !.status = "closed" ] ]
  /\ plast' = ProxyCall("restart", << >>, TRUE)
  /\ conn' = NoConn
  /\ UNCHANGED savedProxies
  /\ UNCHANGED << hostVars, certVars >>

ProxyNext ==
  \/ AddProxy
  \/ RemoveProxy
  \/ StartProxy
  \/ StopProxy
  \/ StopAllProxies
  \/ UpdateProxy
  \/ ListenOk
  \/ ListenError
  \/ Request
  \/ Restart

SpecProxy == ProxyInit /\ [][ProxyNext]_vars


(***************************************************************************)
(* Claims about ProxyService                                               *)
(***************************************************************************)
Served(d) ==
  /\ d \in DOMAIN sniCertificates
  /\ handleRequest(Current, d).status = 0
  /\ handleRequest(Current, d \o << ":", "443" >>).status = 0

\* C6: at most one shared TLS listener exists at any time, and it is the one
\* the service holds.  A startProxy that finds a server in place and returns
\* true has put the domain's key and cert into the SNI table and marked the
\* route running, has created no server, and leaves every route that was
\* running, and the new one, served by that same server; a request for a
\* running route that reaches the listener is handed to the proxy handler.
C6_OneSharedListener ==
  /\ Cardinality(Live(servers)) <= 1
  /\ Live(servers) \subseteq { sniServer }
  /\ (plast.op = "startProxy" /\ plast.ret /\ plast.serverBefore # 0) =>
       /\ sniServer = plast.serverBefore
       /\ Len(servers) = plast.createdBefore
       /\ plast.domain \in DOMAIN sniCertificates
       /\ sniCertificates[plast.domain] =
            [ key |-> PemOf(plast.domain).key, cert |-> PemOf(plast.domain).cert ]
       /\ proxies[plast.domain].isRunning
       /\ \A d \in plast.runningBefore \cup { plast.domain } : Served(d)
  /\ (plast.op = "request" /\ plast.domain \in plast.runningBefore) =>
       /\ plast.status = 0
       /\ plast.target = proxies[plast.domain].target

C6_Witness ==
  /\ plast.op = "startProxy" /\ plast.ret
  /\ plast.domain = << "b.local" >>
  /\ plast.runningBefore = { << "a.local" >> }
  /\ plast.serverBefore # 0
  /\ servers[sniServer].status = "listening"
  /\ Running(proxies) = Domains

\* C7: after stopProxy(d1) while another route d2 is running, the shared
\* server is the same and not closed, every such d2 is still in the SNI
\* table and marked running, d1 is out of the SNI table and not running, and
\* a request with Host d1 is answered with 404.
C7_StopOneKeepsOthers ==
  /\ (plast.op = "stopProxy" /\ plast.runningBefore \ { plast.domain } # {}) =>
       /\ plast.ret
       /\ sniServer # 0
       /\ sniServer = plast.serverBefore
       /\ Len(servers) = plast.createdBefore
       /\ servers[sniServer].status # "closed"
       /\ \A d2 \in plast.runningBefore \ { plast.domain } :
            /\ d2 \in DOMAIN sniCertificates
            /\ proxies[d2].isRunning
       /\ plast.domain \notin DOMAIN sniCertificates
       /\ plast.domain \notin Running(proxies)
       /\ handleRequest(Current, plast.domain).status = 404
       /\ handleRequest(Current, plast.domain \o << ":", "443" >>).status = 404
  /\ (plast.op = "request" /\ plast.afterStop) => plast.status = 404

C7_Witness ==
  /\ plast.op = "request" /\ plast.afterStop
  /\ plast.domain = << "a.local" >>
  /\ plast.status = 404
  /\ plast.runningBefore = { << "b.local" >> }
  /\ << "a.local" >> \in DOMAIN proxies

\* C8: when the shared server fails to bind its port, the startProxy that
\* asked for it has not returned true and its route is not marked running.
C8_BindFailureReported ==
  (plast.op = "listenError" /\ plast.afterStart) =>
    /\ ~plast.ret
    /\ plast.domain \notin Running(proxies)

\* the state the claim is about: startProxy("a.local") has returned, then
\* the 'error' event of the server it created has been handled
C8_Witness ==
  /\ plast.op = "listenError" /\ plast.afterStart
  /\ plast.domain = << "a.local" >>
  /\ plast.ret
  /\ proxies[<< "a.local" >>].isRunning
  /\ plast.serverBefore = 0
  /\ servers[sniServer].status = "failed"

(***************************************************************************)
(* CertificateManager as a state machine                                   *)
(***************************************************************************)
MaxClock == 3

\* root keys written at most, over all attempts to create the root CA
MaxRootKeys == 3

\* certificates found in certsDir under a.local's file names at start-up:
\* issued for the domain (valid, expired, not yet valid), issued for another
\* name, for a longer name, and with the domain only as CN or as second SAN
StoredCertificates ==
  { Certificate(<< "a.local" >>, << << "a.local" >> >>, 0, MaxClock),
    Certificate(<< "a.local" >>, << << "a.local" >> >>, 0, 1),
    Certificate(<< "a.local" >>, << << "a.local" >> >>, 2, MaxClock),
    Certificate(<< "b.local" >>, << << "b.local" >> >>, 0, MaxClock),
    Certificate(LongerName, << LongerName >>, 0, MaxClock),
    Certificate(<< "a.local" >>, << << "b.local" >> >>, 0, MaxClock),
    Certificate(<< "b.local" >>, << << "b.local" >>, << "a.local" >> >>, 0, MaxClock) }

InitDirs ==
  { EmptyMap }
    \cup { [ f \in { CrtPath(<< "a.local" >>), KeyPath(<< "a.local" >>) } |->
               IF f = CrtPath(<< "a.local" >>) THEN c
               ELSE OtherFile("key", << "a.local" >>, NoNames) ]
           : c \in StoredCertificates }

CertCall(op, domain, ok, info) ==
  [ op |-> op, domain |-> domain, ok |-> ok, info |-> info,
    afterCreate |-> /\ op = "verifyCertificate"
                    /\ clast.op = "createCertificate"
                    /\ clast.ok
                    /\ clast.domain = domain,
    rootExisted |-> op = "initialize" /\ RootExists(rootCA),
    list |-> << >> ]

CertsInit ==
  /\ hostsFile = << EmptyLine >>
  /\ last = NoCall
  /\ pending = NoPending
  /\ proxies = EmptyMap /\ sniServer = 0 /\ sniCertificates = EmptyMap
  /\ servers = << >> /\ savedProxies = EmptyMap /\ plast = NoProxyCall /\ conn = NoConn
  /\ build \in { "openssl", "forge" }
  /\ hasOpenSSL = FALSE
  /\ hasMkcert \in (IF build = "forge" THEN BOOLEAN ELSE { FALSE })
  /\ certsDir \in InitDirs
  /\ clock = 0
  /\ clast = NoCertCall /\ issuing = NoIssuing /\ rootCA = IssuedRoot

\* CertificateManager.initialize: the OpenSSL build learns whether the
\* openssl command is there and creates the root CA if it is missing
Initialize ==
  \E installed \in BOOLEAN :
    \E failAt \in RootFailPoints :
      LET r == initialize(build, rootCA, installed, failAt)
      IN  /\ r.root.keys <= MaxRootKeys
          /\ hasOpenSSL' = r.hasOpenSSL
          /\ rootCA' = r.root
          /\ clast' = CertCall("initialize", << >>, r.ok, NullInfo)
          /\ UNCHANGED << build, hasMkcert, certsDir, clock >>
          /\ UNCHANGED << issuing, hostVars, proxyVars >>

CreateCertificate ==
  \E domain \in CertDomains :
    \E failAt \in FailPoints(build, hasMkcert) :
      LET r == createCertificate(build, certsDir, clock, domain, failAt,
                                 hasOpenSSL, hasMkcert)
      IN  \* `openssl x509 -req -CA rootCA.crt -CAkey rootCA.key` needs both
          /\ (build = "openssl" /\ hasOpenSSL /\ failAt = "none") =>
               RootExists(rootCA)
          /\ certsDir' = r.dir
          /\ clast' = CertCall("createCertificate", domain, r.ok, r.info)
          /\ UNCHANGED << build, hasOpenSSL, hasMkcert, clock >>
          /\ UNCHANGED << issuing, rootCA, hostVars, proxyVars >>

VerifyCertificate ==
  \E domain \in CertDomains :
    /\ clast' = CertCall("verifyCertificate", domain, TRUE,
                         verifyCertificate(build, certsDir, clock, domain))
    /\ UNCHANGED << build, hasOpenSSL, hasMkcert, certsDir, clock >>
    /\ UNCHANGED << issuing, rootCA, hostVars, proxyVars >>

DeleteCertificate ==
  \E domain \in CertDomains :
    LET r == deleteCertificate(build, certsDir, clock, domain)
    IN  /\ certsDir' = r.dir
        /\ clast' = CertCall("deleteCertificate", domain, r.ok, NullInfo)
        /\ UNCHANGED << build, hasOpenSSL, hasMkcert, clock >>
        /\ UNCHANGED << issuing, rootCA, hostVars, proxyVars >>

\* time passes
Tick ==
  /\ clock < MaxClock
  /\ clock' = clock + 1
  /\ clast' = CertCall("tick", << >>, TRUE, NullInfo)
  /\ UNCHANGED << build, hasOpenSSL, hasMkcert, certsDir >>
  /\ UNCHANGED << issuing, rootCA, hostVars, proxyVars >>

CertsNext ==
  \/ Initialize
  \/ CreateCertificate
  \/ VerifyCertificate
  \/ DeleteCertificate
  \/ Tick

SpecCerts == CertsInit /\ [][CertsNext]_vars

(***************************************************************************)
(* Claims about CertificateManager                                         *)
(***************************************************************************)
NamesOf(cert) == { cert.sans[i] : i \in 1..Len(cert.sans) } \cup { cert.cn }
WithinValidity(cert) == clock >= cert.notBefore /\ clock <= cert.notAfter

\* C9: verifyCertificate(d) reports isValid = true only if the current time
\* lies within [notBefore, notAfter] and d is exactly one of the SAN names of
\* the stored certificate (or its CN); when d differs from every name of the
\* stored certificate, isValid is false even while it is unexpired.
C9_ValidOnlyForExactName ==
  (clast.op = "verifyCertificate" /\ clast.info.present) =>
    LET cert == certsDir[CrtPath(clast.domain)]
    IN  /\ clast.info.isValid =>
             WithinValidity(cert) /\ clast.domain \in NamesOf(cert)
        /\ clast.domain \notin NamesOf(cert) => ~clast.info.isValid

\* the state the claim is about: an unexpired certificate that names only
\* a.local.dev is stored under a.local and verifyCertificate("a.local") ran
C9_Witness ==
  /\ clast.op = "verifyCertificate" /\ clast.info.present
  /\ clast.domain = << "a.local" >>
  /\ NamesOf(certsDir[CrtPath(<< "a.local" >>)]) = { LongerName }
  /\ WithinValidity(certsDir[CrtPath(<< "a.local" >>)])

\* C10: directly after createCertificate(d) has succeeded, verifyCertificate(d)
\* returns a record with isValid = true; and verifyCertificate returns null
\* for a domain whose certificate file or key file is not in certsDir.
C10_CreateThenVerifyValid ==
  /\ (clast.op = "createCertificate" /\ clast.ok) =>
       /\ verifyCertificate(build, certsDir, clock, clast.domain).present
       /\ verifyCertificate(build, certsDir, clock, clast.domain).isValid
  /\ (clast.op = "verifyCertificate" /\ clast.afterCreate) =>
       clast.info.present /\ clast.info.isValid
  /\ ( /\ clast.op = "verifyCertificate"
       /\ \/ ~Exists(certsDir, CrtPath(clast.domain))
          \/ ~Exists(certsDir, KeyPath(clast.domain)) ) =>
       ~clast.info.present

C10_Witness ==
  /\ clast.op = "verifyCertificate" /\ clast.afterCreate
  /\ build = "openssl"
  /\ clast.domain = << "a.local" >>
  /\ clast.info.isValid
  /\ clock > 0

(***************************************************************************)
(* Claims about ProxyService (continued)                                   *)
(***************************************************************************)
\* C11: whatever isRunning values proxies.json holds, a newly constructed
\* ProxyService holds every stored route with isRunning = false and has no
\* server; and a route that was not running becomes running only by a
\* startProxy call for it that returns true.
C11_LoadedNotRunning ==
  /\ [] ( plast.op \in { "none", "restart" } =>
            /\ Running(proxies) = {}
            /\ DOMAIN proxies = DOMAIN savedProxies
            /\ sniServer = 0 /\ Live(servers) = {} )
  /\ [][ \A d \in Domains :
           (d \in Running(proxies') /\ d \notin Running(proxies)) =>
             (plast'.op = "startProxy" /\ plast'.domain = d /\ plast'.ret) ]_vars

C11_Witness ==
  /\ plast.op = "restart"
  /\ \E d \in DOMAIN savedProxies :
       savedProxies[d].isRunning /\ ~proxies[d].isRunning
  /\ Running(savedProxies) = Domains

(***************************************************************************)
(* HostsManager with two calls in flight.  Every method is async: it       *)
(* suspends at each await (readHosts, fs.readFile, fs.writeFile,           *)
(* fs.appendFile) and another request handler may run; HostsManager holds  *)
(* no lock.  A call is the record of its arguments, the await it is        *)
(* suspended at, and what it computed from the content it read.            *)
(***************************************************************************)
AsyncIps == Ips

HostsCall(op, domain, ip, disable) ==
  [ op |-> op, domain |-> domain, ip |-> ip, disable |-> disable,
    step |-> IF op = "addHost" THEN "readHosts" ELSE "readFile",
    inner |-> IF op = "adoptHost" THEN "markHostAsOurs" ELSE op,
    innerIp |-> ip, started |-> FALSE, lines |-> << >>, ret |-> FALSE ]

HostsCalls ==
  { HostsCall(op, d, ip, FALSE) :
      op \in { "addHost", "adoptHost", "removeHost" }, d \in Domains, ip \in AsyncIps }
    \cup { HostsCall("toggleHostState", d, ip, dis) :
             d \in Domains, ip \in AsyncIps, dis \in BOOLEAN }

\* the method body that runs between fs.readFile and fs.writeFile
Inner(c, lines) ==
  CASE c.inner = "markHostAsOurs" -> markHostAsOurs(lines, c.domain, c.innerIp)
    [] c.inner = "toggleHostState" ->
         toggleHostState(lines, c.domain, c.disable, c.innerIp)
    [] OTHER -> removeHost(lines, c.domain, c.innerIp)

\* the call run from its start to its end with nothing in between
Serial(c, lines) ==
  CASE c.op = "addHost" -> addHost(lines, c.domain, c.ip).lines
    [] c.op = "adoptHost" -> adoptHost(lines, c.domain, c.ip).lines
    [] c.op = "toggleHostState" ->
         toggleHostState(lines, c.domain, c.disable, c.ip).lines
    [] OTHER -> removeHost(lines, c.domain, c.ip).lines

Other(i) == 3 - i
InFlight(c) == c.started /\ c.step # "done"
AllDone == pending.calls # << >> /\ \A i \in 1..2 : pending.calls[i].step = "done"

Resume(i, c) ==
  pending' = [ pending EXCEPT
                 !.calls[i] = [ c EXCEPT !.started = TRUE ],
                 !.overlapped = @ \/ InFlight(pending.calls[Other(i)]) ]

AsyncInit ==
  /\ hostsFile \in InitFiles
  /\ last = NoCall
  /\ pending \in { [ start |-> hostsFile, calls |-> << c1, c2 >>, overlapped |-> FALSE ] :
                     c1 \in HostsCalls, c2 \in HostsCalls }
  /\ proxies = EmptyMap /\ sniServer = 0 /\ sniCertificates = EmptyMap
  /\ servers = << >> /\ savedProxies = EmptyMap /\ plast = NoProxyCall /\ conn = NoConn
  /\ build = "openssl" /\ hasOpenSSL = FALSE /\ hasMkcert = FALSE
  /\ certsDir = EmptyMap /\ clock = 0 /\ clast = NoCertCall /\ issuing = NoIssuing /\ rootCA = IssuedRoot

\* addHost: await this.readHosts(), then the choice of what to do
AwaitReadHosts ==
  \E i \in 1..2 :
    LET c == pending.calls[i]
        hosts == readHosts(hostsFile)
        found == FindHost(hosts, c.domain, c.ip)
    IN  /\ pending.calls # << >>
        /\ c.step = "readHosts"
        /\ Resume(i,
             IF found = {} THEN [ c EXCEPT !.step = "appendFile" ]
             ELSE IF ~hosts[Min(found)].isCreatedByUs
             THEN [ c EXCEPT !.step = "readFile", !.inner = "markHostAsOurs" ]
             ELSE IF hosts[Min(found)].isDisabled
             THEN [ c EXCEPT !.step = "readFile", !.inner = "toggleHostState",
                             !.disable = FALSE, !.innerIp = DefaultIp ]
             ELSE [ c EXCEPT !.step = "done", !.ret = TRUE ])
        /\ UNCHANGED << hostsFile, last, proxyVars, certVars >>

\* markHostAsOurs, toggleHostState, removeHost: await fs.readFile(), then
\* the loop over the lines that were read
AwaitReadFile ==
  \E i \in 1..2 :
    LET c == pending.calls[i]
        r == Inner(c, hostsFile)
    IN  /\ pending.calls # << >>
        /\ c.step = "readFile"
        /\ Resume(i,
             IF r.written
             THEN [ c EXCEPT !.step = "writeFile", !.lines = r.lines, !.ret = r.ret ]
             ELSE [ c EXCEPT !.step = "done", !.ret = r.ret ])
        /\ UNCHANGED << hostsFile, last, proxyVars, certVars >>

\* writeHostsFile: await fs.writeFile() with the content computed earlier
AwaitWriteFile ==
  \E i \in 1..2 :
    LET c == pending.calls[i]
    IN  /\ pending.calls # << >>
        /\ c.step = "writeFile"
        /\ hostsFile' = c.lines
        /\ Resume(i, [ c EXCEPT !.step = "done" ])
        /\ UNCHANGED << last, proxyVars, certVars >>

\* appendToHostsFile: await fs.appendFile() of the new block
AwaitAppendFile ==
  \E i \in 1..2 :
    LET c == pending.calls[i]
    IN  /\ pending.calls # << >>
        /\ c.step = "appendFile"
        /\ hostsFile' = appendToHostsFile(hostsFile, c.ip, c.domain).lines
        /\ Resume(i, [ c EXCEPT !.step = "done", !.ret = TRUE ])
        /\ UNCHANGED << last, proxyVars, certVars >>

AsyncNext ==
  \/ AwaitReadHosts
  \/ AwaitReadFile
  \/ AwaitWriteFile
  \/ AwaitAppendFile

SpecHostsAsync == AsyncInit /\ [][AsyncNext]_vars

(***************************************************************************)
(* Claims about HostsManager calls in flight together                      *)
(***************************************************************************)
SerialResults ==
  { Serial(pending.calls[2], Serial(pending.calls[1], pending.start)),
    Serial(pending.calls[1], Serial(pending.calls[2], pending.start)) }

\* C12: when two mutating calls (addHost, adoptHost, toggleHostState,
\* removeHost) are in flight together and interleave at their awaits, the
\* file they leave is the one some serial order of the two leaves, and no
\* ip+domain has more managed blocks than the larger of one and the number
\* it started with.
C12_InterleavingIsSerial ==
  AllDone =>
    /\ hostsFile \in SerialResults
    /\ \A ip \in Ips, d \in Domains :
         Cardinality(ManagedEntries(hostsFile, ip, d)) <= 1
           \/ Cardinality(ManagedEntries(hostsFile, ip, d))
                <= Cardinality(ManagedEntries(pending.start, ip, d))

\* the state the claim is about: both calls have ended, and one of them ran
\* between two awaits of the other
C12_Witness ==
  /\ AllDone
  /\ pending.overlapped
  /\ pending.calls[1].op = "toggleHostState" /\ pending.calls[1].ret
  /\ pending.calls[2].op = "removeHost" /\ pending.calls[2].ret

(***************************************************************************)
(* createCertificate (OpenSSL build) with two requests in flight.  The     *)
(* method suspends at every await (fs.writeFile, each execAsync, each      *)
(* fs.unlink, parseCertificate); CertificateManager holds no lock.  A      *)
(* command whose input file is missing fails, and the method throws.       *)
(***************************************************************************)
IssueCall(domain) == [ domain |-> domain, pc |-> "writeFile", started |-> FALSE ]

Issuing(c) == c.started /\ c.pc \notin { "done", "failed" }

Advance(i, pc) ==
  issuing' = [ issuing EXCEPT ![i] = [ @ EXCEPT !.pc = pc, !.started = TRUE ] ]

IssueInit ==
  /\ hostsFile = << EmptyLine >>
  /\ last = NoCall
  /\ pending = NoPending
  /\ proxies = EmptyMap /\ sniServer = 0 /\ sniCertificates = EmptyMap
  /\ servers = << >> /\ savedProxies = EmptyMap /\ plast = NoProxyCall /\ conn = NoConn
  /\ build = "openssl" /\ hasOpenSSL = TRUE /\ hasMkcert = FALSE
  /\ certsDir \in InitDirs
  /\ clock = 0
  /\ clast = NoCertCall /\ rootCA = IssuedRoot
  /\ issuing \in { << IssueCall(d1), IssueCall(d2) >> :
                     d1 \in CertDomains, d2 \in CertDomains }

IssueFrame ==
  UNCHANGED << build, hasOpenSSL, hasMkcert, clock, clast, rootCA, hostVars, proxyVars >>

\* await fs.writeFile(configPath, configContent)
IssueWriteConfig ==
  \E i \in 1..2 :
    /\ issuing # NoIssuing
    /\ issuing[i].pc = "writeFile"
    /\ certsDir' = MapSet(certsDir, CnfPath(issuing[i].domain),
                          generateOpenSSLConfig(issuing[i].domain))
    /\ Advance(i, "genrsa")
    /\ IssueFrame

\* await execAsync(`openssl genrsa -out keyPath 2048`)
IssueGenrsa ==
  \E i \in 1..2 :
    /\ issuing # NoIssuing
    /\ issuing[i].pc = "genrsa"
    /\ certsDir' = MapSet(certsDir, KeyPath(issuing[i].domain),
                          OtherFile("key", issuing[i].domain, NoNames))
    /\ Advance(i, "req")
    /\ IssueFrame

\* await execAsync(`openssl req -new -key keyPath -out csrPath -config configPath ...`)
IssueReq ==
  \E i \in 1..2 :
    LET d == issuing[i].domain
    IN  /\ issuing # NoIssuing
        /\ issuing[i].pc = "req"
        /\ IF Exists(certsDir, KeyPath(d)) /\ Exists(certsDir, CnfPath(d))
           THEN /\ certsDir' = MapSet(certsDir, CsrPath(d), OtherFile("csr", d, NoNames))
                /\ Advance(i, "x509")
           ELSE /\ UNCHANGED certsDir
                /\ Advance(i, "failed")
        /\ IssueFrame

\* await execAsync(`openssl x509 -req -in csrPath ... -out certPath -days 365 ... -extfile configPath`)
IssueX509 ==
  \E i \in 1..2 :
    LET d == issuing[i].domain
    IN  /\ issuing # NoIssuing
        /\ issuing[i].pc = "x509"
        /\ IF Exists(certsDir, CsrPath(d)) /\ Exists(certsDir, CnfPath(d))
           THEN /\ certsDir' = MapSet(certsDir, CrtPath(d),
                                      Certificate(certsDir[CsrPath(d)].cn,
                                                  certsDir[CnfPath(d)].sans,
                                                  clock, clock + CertDays))
                /\ Advance(i, "unlinkCsr")
           ELSE /\ UNCHANGED certsDir
                /\ Advance(i, "failed")
        /\ IssueFrame

\* await fs.unlink(csrPath)
IssueUnlinkCsr ==
  \E i \in 1..2 :
    LET d == issuing[i].domain
    IN  /\ issuing # NoIssuing
        /\ issuing[i].pc = "unlinkCsr"
        /\ IF Exists(certsDir, CsrPath(d))
           THEN certsDir' = MapDelete(certsDir, CsrPath(d)) /\ Advance(i, "unlinkCnf")
           ELSE UNCHANGED certsDir /\ Advance(i, "failed")
        /\ IssueFrame

\* await fs.unlink(configPath)
IssueUnlinkCnf ==
  \E i \in 1..2 :
    LET d == issuing[i].domain
    IN  /\ issuing # NoIssuing
        /\ issuing[i].pc = "unlinkCnf"
        /\ IF Exists(certsDir, CnfPath(d))
           THEN certsDir' = MapDelete(certsDir, CnfPath(d)) /\ Advance(i, "parse")
           ELSE UNCHANGED certsDir /\ Advance(i, "failed")
        /\ IssueFrame

\* await this.parseCertificate(domain), then return or throw
IssueParse ==
  \E i \in 1..2 :
    /\ issuing # NoIssuing
    /\ issuing[i].pc = "parse"
    /\ Advance(i, IF parseCertificate(certsDir, clock, issuing[i].domain).present
                  THEN "done" ELSE "failed")
    /\ UNCHANGED certsDir
    /\ IssueFrame

IssueNext ==
  \/ IssueWriteConfig
  \/ IssueGenrsa
  \/ IssueReq
  \/ IssueX509
  \/ IssueUnlinkCsr
  \/ IssueUnlinkCnf
  \/ IssueParse

SpecCertsAsync == IssueInit /\ [][IssueNext]_vars

(***************************************************************************)
(* Claims about createCertificate calls in flight together                 *)
(***************************************************************************)
\* C13: no two createCertificate calls for the same domain are in progress
\* at the same time: while one has begun and not yet returned or thrown, no
\* other call for that domain has begun without having ended.
C13_NoConcurrentIssue ==
  issuing # NoIssuing =>
    \A i \in 1..2, j \in 1..2 :
      (i # j /\ issuing[i].domain = issuing[j].domain) =>
        ~(Issuing(issuing[i]) /\ Issuing(issuing[j]))

\* the state the claim is about: a second request for a.local arrived while
\* the first was in progress; its steps ran between those of the first, and
\* the first then threw because its temporary file had been removed
C13_Witness ==
  /\ issuing # NoIssuing
  /\ issuing[1].domain = << "a.local" >> /\ issuing[2].domain = << "a.local" >>
  /\ issuing[1].pc = "failed" /\ issuing[2].pc = "done"

(***************************************************************************)
(* Claims about HostsManager (continued)                                   *)
(***************************************************************************)
\* the entry readHosts() reports first for (ip, domain), as a set
FirstEntryFor(lines, ip, domain) ==
  LET hosts == readHosts(lines)
      held == { k \in 1..Len(hosts) : hosts[k].ip = ip /\ hosts[k].domain = domain }
  IN  IF held = {} THEN {} ELSE { hosts[Min(held)] }

\* C14: for every ip, when the entry for (ip, domain) is managed and
\* disabled, addHost(domain, ip) returns true and has re-enabled it: its data
\* line is uncommented, the line below is the active sentinel, and
\* readHosts() reports it managed and enabled.
C14_AddReenablesAnyIp ==
  last.op = "addHost" =>
    \A h \in FirstEntryFor(last.before, last.ip, last.domain) :
      (h.isCreatedByUs /\ h.isDisabled) =>
        /\ last.ret
        /\ Len(hostsFile) = Len(last.before)
        /\ ~StartsWithHash(Trim(hostsFile[h.lineNumber]))
        /\ Trim(hostsFile[h.lineNumber + 1]) = APP_IDENTIFIER
        /\ \E g \in EntriesOf(hostsFile) :
             /\ g.ip = last.ip /\ g.domain = last.domain
             /\ g.lineNumber = h.lineNumber
             /\ g.isCreatedByUs /\ ~g.isDisabled

\* the state the claim is about: addHost(d, "::1") has run on a file whose
\* entry for ("::1", d) was managed and disabled
C14_Witness ==
  /\ last.op = "addHost" /\ last.ip = << "::1" >>
  /\ \E h \in FirstEntryFor(last.before, last.ip, last.domain) :
       h.isCreatedByUs /\ h.isDisabled

\* the uncommented lines for (ip, domain)
PlainLinesFor(lines, ip, domain) ==
  { i \in 1..Len(lines) :
      /\ Trim(lines[i]) # << >>
      /\ ~StartsWithHash(Trim(lines[i]))
      /\ PartsMatch(Trim(lines[i]), ip, domain) }

SentinelBelow(lines, i) == i < Len(lines) /\ IsIdentifier(lines[i + 1])

RoundTrip(first, final, ip, domain) ==
  /\ \A h \in ManagedEntries(first, ip, domain) :
       \E g \in ManagedEntries(final, ip, domain) : g.lineNumber = h.lineNumber
  /\ Len(final) = Len(first)
  /\ \A i \in 1..Len(first) :
       final[i] # first[i] =>
         \/ /\ BlockAt(first, i) /\ BlockAt(final, i)
            /\ Uncommented(final[i]) = Uncommented(first[i])
         \/ /\ i > 1 /\ BlockAt(first, i - 1) /\ BlockAt(final, i - 1)
            /\ IsIdentifier(first[i]) /\ IsIdentifier(final[i])

\* C16: for a managed entry (ip, d), toggleHostState one way directly
\* followed by toggleHostState the other way leaves every managed entry for
\* (ip, d) on its line with the same ip and domain, and managed; the file
\* keeps its length, and a line that changed is a line of a managed block
\* whose text differs only in its '#' prefix or in the kind of sentinel.
C16_ToggleRoundTrip ==
  [][ ( /\ last.op = "toggleHostState"
        /\ last'.op = "toggleHostState"
        /\ last'.domain = last.domain /\ last'.ip = last.ip
        /\ last'.disable # last.disable
        /\ last'.before = hostsFile
        /\ ManagedEntries(last.before, last.ip, last.domain) # {} )
      => RoundTrip(last.before, hostsFile', last.ip, last.domain) ]_vars

\* a managed, enabled entry has been disabled and enabled again, both calls
\* writing the file
C16_Witness ==
  /\ last.op = "toggleHostState" /\ last.afterToggle
  /\ ~last.disable /\ last.ret /\ last.written
  /\ \E h \in ManagedEntries(last.before, last.ip, last.domain) : h.isDisabled
  /\ \E h \in ManagedEntries(hostsFile, last.ip, last.domain) : ~h.isDisabled

Loopback(h) == h.ip = << "127.0.0.1" >> \/ h.ip = << "::1" >>

\* the lines of the loopback entries that readHosts() reports as not ours
UnmanagedLoopbackLines(lines) ==
  { h.lineNumber : h \in { e \in EntriesOf(lines) : Loopback(e) /\ ~e.isCreatedByUs } }

\* where line n of the file is after a sentinel has been inserted below every
\* line of U above it
ShiftedBy(U, n) == n + Cardinality({ m \in U : m < n })

\* C17: after importAllLocalHosts() returns, every loopback entry that
\* readHosts() reported as unmanaged before the call has the active sentinel
\* directly below its data line and is reported managed by readHosts().
C17_ImportAdoptsEvery ==
  last.op = "importAllLocalHosts" =>
    LET U == UnmanagedLoopbackLines(last.before)
    IN  \A n \in U :
          LET pos == ShiftedBy(U, n)
          IN  /\ pos < Len(hostsFile)
              /\ hostsFile[pos] = last.before[n]
              /\ Trim(hostsFile[pos + 1]) = APP_IDENTIFIER
              /\ \E g \in EntriesOf(hostsFile) :
                   g.lineNumber = pos /\ g.isCreatedByUs

\* importAllLocalHosts has run on a file with two unmanaged loopback entries
C17_Witness ==
  /\ last.op = "importAllLocalHosts"
  /\ Cardinality(UnmanagedLoopbackLines(last.before)) = 2
  /\ last.ret

(***************************************************************************)
(* HostsManager with a hosts file that may refuse a write: besides the     *)
(* calls of SpecHosts, importAllLocalHosts() may have one of its           *)
(* fs.writeFile() calls reject (EACCES, EBUSY, a read-only file system).   *)
(***************************************************************************)
ImportAllLocalHostsThrows ==
  \E failAt \in 1..MaxInitLines :
    LET r == importAllLocalHostsFailing(hostsFile, failAt)
    IN  /\ r.thrown
        /\ hostsFile' = r.lines
        /\ last' = [ Call("importAllLocalHosts", <<>>, <<>>, FALSE, r, r.count)
                       EXCEPT !.thrown = TRUE ]
        /\ UNCHANGED << pending, proxyVars, certVars >>

FailingInit ==
  /\ hostsFile \in InitFiles
  /\ last = NoCall
  /\ pending = NoPending
  /\ proxies = EmptyMap /\ sniServer = 0 /\ sniCertificates = EmptyMap
  /\ servers = << >> /\ savedProxies = EmptyMap /\ plast = NoProxyCall /\ conn = NoConn
  /\ build = "openssl" /\ hasOpenSSL = FALSE /\ hasMkcert = FALSE
  /\ certsDir = EmptyMap /\ clock = 0 /\ clast = NoCertCall /\ issuing = NoIssuing /\ rootCA = IssuedRoot

FailingNext ==
  \/ ImportAllLocalHostsThrows
  \/ ImportAllLocalHosts
  \/ AddHost
  \/ AdoptHost
  \/ ToggleHostState
  \/ RemoveHost

SpecHostsFailing == FailingInit /\ [][FailingNext]_vars

\* C18: in importAllLocalHosts() a failure to adopt one entry does not abort
\* the adoption of the remaining unmanaged loopback entries (every entry
\* reported unmanaged before the call, except the one whose adoption failed,
\* has gained a sentinel), and the call returns as its count the number of
\* entries actually adopted, that is, of sentinels written.
C18_ImportSurvivesFailure ==
  last.op = "importAllLocalHosts" =>
    LET U == UnmanagedLoopbackLines(last.before)
        adopted == Len(hostsFile) - Len(last.before)
    IN  /\ ~last.thrown
        /\ last.count = adopted
        /\ adopted >= Cardinality(U) - (IF last.thrown THEN 1 ELSE 0)

\* the first write of an importAllLocalHosts() over two unmanaged loopback
\* entries was refused
C18_Witness ==
  /\ last.op = "importAllLocalHosts"
  /\ last.thrown
  /\ Cardinality(UnmanagedLoopbackLines(last.before)) = 2
  /\ hostsFile = last.before

\* the line directly below line i is a sentinel, active or disabled
SentinelDirectlyBelow(lines, i) == i < Len(lines) /\ IsIdentifier(lines[i + 1])

\* readHosts() reports line i as an entry whose isCreatedByUs is `managed`
ReportedAs(lines, i, managed) ==
  \E h \in EntriesOf(lines) : h.lineNumber = i /\ h.isCreatedByUs = managed

\* C19: readHosts() reports an entry as managed exactly when the line
\* directly below its data line is a sentinel, active or disabled: every data
\* line (`ip domain`, plain or commented out) with a sentinel directly below
\* it is reported as a managed entry, and a plain data line with any other
\* line below it, or none, is reported with isCreatedByUs = false.
C19_ManagedIffSentinelBelow ==
  /\ \A h \in EntriesOf(hostsFile) :
       h.isCreatedByUs <=> SentinelDirectlyBelow(hostsFile, h.lineNumber)
  /\ \A i \in 1..Len(hostsFile) :
       IsDataLine(hostsFile[i]) =>
         IF SentinelDirectlyBelow(hostsFile, i)
         THEN ReportedAs(hostsFile, i, TRUE)
         ELSE ~StartsWithHash(Trim(hostsFile[i])) => ReportedAs(hostsFile, i, FALSE)

\* a file read by readHosts() that holds a managed block and, above it, a
\* plain data line separated from the sentinel by the block's data line
C19_Witness ==
  \E i \in 1..(Len(hostsFile) - 2) :
    /\ IsDataLine(hostsFile[i]) /\ ~StartsWithHash(Trim(hostsFile[i]))
    /\ IsDataLine(hostsFile[i + 1])
    /\ IsIdentifier(hostsFile[i + 2])
    /\ ReportedAs(hostsFile, i, FALSE)
    /\ ReportedAs(hostsFile, i + 1, TRUE)

\* C20: toggleHostState(domain, disable, ip) returns false and does not
\* write the hosts file when (ip, domain) is not a managed entry: no line of
\* the file names ip and domain, or every line that does has no sentinel
\* directly below it.
C20_ToggleFalseIfUnmanaged ==
  ( /\ last.op = "toggleHostState"
    /\ \A i \in DataLinesFor(last.before, last.ip, last.domain) :
         ~SentinelDirectlyBelow(last.before, i) ) =>
    /\ ~last.ret
    /\ ~last.written
    /\ hostsFile = last.before

\* toggleHostState was called for a pair that the file names on a line with
\* no sentinel directly below it
C20_Witness ==
  /\ last.op = "toggleHostState"
  /\ DataLinesFor(last.before, last.ip, last.domain) # {}
  /\ \A i \in DataLinesFor(last.before, last.ip, last.domain) :
       ~SentinelDirectlyBelow(last.before, i)
  /\ ~last.ret
  /\ hostsFile = last.before

(***************************************************************************)
(* ProxyService with one client connection in flight on the shared         *)
(* listener.  The connection is accepted and its ClientHello names a       *)
(* server; the SNICallback answers on a later turn of the event loop, and  *)
(* startProxy and stopProxy may run in between.  Both routes are           *)
(* registered when the service is constructed.                             *)
(***************************************************************************)
ServerNames == Domains \cup { OtherDomain }

ConnInit ==
  /\ hostsFile = << EmptyLine >>
  /\ last = NoCall
  /\ pending = NoPending
  /\ savedProxies = [ d \in Domains |-> SavedRoute(d, FALSE) ]
  /\ proxies = loadProxies(savedProxies)
  /\ sniServer = 0
  /\ sniCertificates = EmptyMap
  /\ servers = << >>
  /\ plast = NoProxyCall /\ conn = NoConn
  /\ build = "openssl" /\ hasOpenSSL = FALSE /\ hasMkcert = FALSE
  /\ certsDir = IssuedPems /\ clock = 0 /\ clast = NoCertCall /\ issuing = NoIssuing /\ rootCA = IssuedRoot

ConnFrame ==
  /\ UNCHANGED << proxies, sniServer, sniCertificates, servers, savedProxies,
                  plast >>
  /\ UNCHANGED << hostVars, certVars >>

\* a client connects to the listening server and names a server
ClientHello ==
  \E servername \in ServerNames :
    /\ conn.stage = "idle"
    /\ sniServer # 0
    /\ servers[sniServer].status = "listening"
    /\ conn' = [ NoConn EXCEPT !.stage = "hello", !.servername = servername ]
    /\ ConnFrame

\* the SNICallback runs for the connection
ServerHello ==
  LET r == SNICallback(sniCertificates, conn.servername)
  IN  /\ conn.stage = "hello"
      /\ conn' = [ conn EXCEPT !.stage = IF r.err THEN "failed" ELSE "secure",
                               !.context = r.context ]
      /\ ConnFrame

\* the request of the secured connection reaches the request handler: it is
\* answered with 400 or 404, or handleProxyRequest opens the request to the
\* backend (proxyReq) and registers its 'error' handler
ConnRequest ==
  \E host \in HostHeaders :
    LET r == handleRequest(Current, host)
    IN  /\ conn.stage = "secure"
        /\ conn' = [ conn EXCEPT
                       !.stage = IF r.status = 0 THEN "proxying" ELSE "ended",
                       !.host = host,
                       !.status = r.status,
                       !.target = r.target,
                       !.headersSent = (r.status # 0) ]
        /\ ConnFrame

\* the backend answers: the 'response' callback of proxyReq sets the
\* X-Proxied-By header, copies status and headers with res.writeHead and
\* pipes the body
BackendResponse ==
  /\ conn.stage = "proxying" /\ ~conn.headersSent
  /\ conn' = [ conn EXCEPT !.status = 200, !.headersSent = TRUE,
                           !.proxiedBy = TRUE ]
  /\ ConnFrame

\* the body ends: pipe() ends the response
BackendEnd ==
  /\ conn.stage = "proxying" /\ conn.headersSent
  /\ conn' = [ conn EXCEPT !.stage = "ended" ]
  /\ ConnFrame

\* proxyReq emits 'error' (connection refused or reset, backend socket
\* error): 502 when no header went out yet, otherwise res.end()
ProxyReqError ==
  /\ conn.stage = "proxying"
  /\ conn' = IF ~conn.headersSent
             THEN [ conn EXCEPT !.stage = "ended", !.status = 502,
                                !.headersSent = TRUE,
                                !.failure = "errorBeforeHeaders" ]
             ELSE [ conn EXCEPT !.stage = "ended",
                                !.failure = "errorAfterHeaders" ]
  /\ ConnFrame

\* the backend closes its connection in the middle of the body: Node reports
\* it on the response stream ('aborted' on proxyRes), on which
\* handleProxyRequest has registered nothing but pipe(); pipe() ends the
\* client's response only on the 'end' of its source
ProxyResAborted ==
  /\ conn.stage = "proxying" /\ conn.headersSent
  /\ conn' = [ conn EXCEPT !.stage = "open", !.failure = "abortedAfterHeaders" ]
  /\ ConnFrame

\* the connection ends
ConnClose ==
  /\ conn.stage \notin { "idle", "hello", "proxying" }
  /\ conn' = NoConn
  /\ ConnFrame

ConnNext ==
  \/ StartProxy
  \/ StopProxy
  \/ ListenOk
  \/ ClientHello
  \/ ServerHello
  \/ ConnRequest
  \/ BackendResponse
  \/ BackendEnd
  \/ ProxyReqError
  \/ ProxyResAborted
  \/ ConnClose

SpecConn == ConnInit /\ [][ConnNext]_vars

\* C21: when the SNI callback answers a handshake, it answers with a secure
\* context holding the key and certificate stored under exactly the requested
\* server name if that name is in the SNI table at that moment, and fails the
\* handshake otherwise; and a startProxy or stopProxy of a different domain
\* that runs while the handshake is in flight leaves the table entry of the
\* requested name, and the connection, as they were.
C21_HandshakeGetsOwnCertificate ==
  [][ /\ (conn.stage = "hello" /\ conn'.stage \notin { "hello", "idle" }) =>
           IF conn.servername \in DOMAIN sniCertificates
           THEN /\ conn'.stage = "secure"
                /\ conn'.context = sniCertificates[conn.servername]
                /\ conn'.context.cert = conn.servername \o << ".crt" >>
                /\ conn'.context.key = conn.servername \o << ".key" >>
           ELSE /\ conn'.stage = "failed"
                /\ conn'.context = NoContext
      /\ ( /\ conn.stage \in { "hello", "secure" }
           /\ plast' # plast
           /\ plast'.op \in { "startProxy", "stopProxy" }
           /\ plast'.domain # conn.servername ) =>
           /\ conn' = conn
           /\ conn.servername \in DOMAIN sniCertificates =>
                /\ conn.servername \in DOMAIN sniCertificates'
                /\ sniCertificates'[conn.servername] =
                     sniCertificates[conn.servername]
    ]_vars

\* a handshake for a.local was answered with a secure context after b.local,
\* running beside it, was stopped between the ClientHello and the callback
C21_Witness ==
  /\ conn.stage = "secure"
  /\ conn.servername = << "a.local" >>
  /\ plast.op = "stopProxy" /\ plast.domain = << "b.local" >>
  /\ plast.connBefore = "hello"
  /\ plast.runningBefore = Domains

(***************************************************************************)
(* Claims about ProxyService (continued)                                   *)
(***************************************************************************)
\* the Host header up to its first colon
HostPart(host) ==
  LET n == CHOOSE k \in 0..Len(host) :
             /\ \A i \in 1..k : host[i] # ":"
             /\ k = Len(host) \/ host[k + 1] = ":"
  IN  SubSeq(host, 1, n)

NamesRunningRoute(host) ==
  HostPart(host) \in DOMAIN proxies /\ proxies[HostPart(host)].isRunning

\* C22: a request whose Host header, port stripped, does not name a
\* registered route with isRunning = true is answered with 404 and is not
\* forwarded; a request that is forwarded names a running route and is
\* forwarded to that route's target.
C22_UnknownHostGets404 ==
  plast.op = "request" =>
    /\ ~NamesRunningRoute(plast.host) =>
         plast.status = 404 /\ plast.target = NoTarget
    /\ plast.status = 0 =>
         /\ NamesRunningRoute(plast.host)
         /\ plast.target = proxies[HostPart(plast.host)].target

\* C22 as the code has it: a request whose Host header is missing, or empty
\* once the port is stripped, is answered with 400; one whose Host names no
\* registered route with isRunning = true is answered with 404; neither is
\* forwarded.  A request that is forwarded names a running route and is
\* forwarded to that route's target.
C22_UnknownHostRefused ==
  plast.op = "request" =>
    /\ ~NamesRunningRoute(plast.host) =>
         /\ plast.status = IF HostPart(plast.host) = << >> THEN 400 ELSE 404
         /\ plast.target = NoTarget
    /\ plast.status = 0 =>
         /\ NamesRunningRoute(plast.host)
         /\ plast.target = proxies[HostPart(plast.host)].target

\* while a.local is running, a request with the Host header ":443" has been
\* answered with 400
C22_Witness ==
  /\ plast.op = "request"
  /\ plast.host = EmptyHost
  /\ plast.status = 400
  /\ << "a.local" >> \in Running(proxies)

(***************************************************************************)
(* ProxyService beside CertificateManager: while routes are registered,    *)
(* started, stopped and updated, deleteCertificate may remove the leaf     *)
(* files a route was started with.                                         *)
(***************************************************************************)
ProxyCertsInit ==
  /\ hostsFile = << EmptyLine >>
  /\ last = NoCall
  /\ pending = NoPending
  /\ savedProxies = EmptyMap
  /\ proxies = loadProxies(savedProxies)
  /\ sniServer = 0
  /\ sniCertificates = EmptyMap
  /\ servers = << >>
  /\ plast = NoProxyCall /\ conn = NoConn
  /\ build = "openssl" /\ hasOpenSSL = FALSE /\ hasMkcert = FALSE
  /\ certsDir = IssuedPems /\ clock = 0 /\ clast = NoCertCall /\ issuing = NoIssuing /\ rootCA = IssuedRoot

ProxyCertsNext ==
  \/ AddProxy
  \/ StartProxy
  \/ StopProxy
  \/ UpdateProxy
  \/ ListenOk
  \/ DeleteCertificate

SpecProxyCerts == ProxyCertsInit /\ [][ProxyCertsNext]_vars

\* the target as stored: with http:// in front unless it has a scheme
WithScheme(target) ==
  IF Head(target) \in { HttpScheme, HttpsScheme } THEN target
  ELSE << HttpScheme >> \o target

\* C23: when updateProxy is given a target for a route that is running, the
\* route is running when updateProxy returns, restarted with the certPath and
\* keyPath it had (its entry is in the SNI table and the service holds a
\* server), and a request for the domain is forwarded to the new target.
C23_UpdateKeepsRunning ==
  ( /\ plast.op = "updateProxy" /\ plast.ret
    /\ plast.target # NoTarget
    /\ plast.domain \in plast.runningBefore ) =>
    LET d == plast.domain
    IN  /\ d \in Running(proxies)
        /\ proxies[d].target = WithScheme(plast.target)
        /\ proxies[d].certPath = d \o << ".crt" >>
        /\ proxies[d].keyPath = d \o << ".key" >>
        /\ d \in DOMAIN sniCertificates
        /\ sniCertificates[d] = [ key |-> proxies[d].keyPath,
                                  cert |-> proxies[d].certPath ]
        /\ sniServer # 0
        /\ handleRequest(Current, d) =
             [ status |-> 0, target |-> WithScheme(plast.target) ]

\* updateProxy was given a target for the running route a.local after the
\* certificate of a.local had been deleted
C23_Witness ==
  /\ plast.op = "updateProxy" /\ plast.ret
  /\ plast.domain = << "a.local" >>
  /\ plast.target # NoTarget
  /\ plast.domain \in plast.runningBefore
  /\ ~Exists(certsDir, CrtPath(<< "a.local" >>))
  /\ << "a.local" >> \notin Running(proxies)

\* C24: stopProxy(domain) returns false when there is nothing to act on,
\* the domain not being a registered route or its route not running, and
\* returns true only when it stopped a route that was running.
C24_StopFalseIfNothingToStop ==
  plast.op = "stopProxy" =>
    /\ plast.ret <=> plast.domain \in plast.runningBefore
    /\ plast.domain \notin Running(proxies)

\* stopProxy was called for a domain that is not a registered route
C24_Witness ==
  /\ plast.op = "stopProxy"
  /\ plast.domain \notin DOMAIN proxies
  /\ plast.runningBefore = { << "a.local" >> }
  /\ plast.ret

\* C25: after stopAllProxies() returns, no route is marked running, the SNI
\* table is empty, and the service holds no server: the one it held is
\* closed and none holds the port, whatever routes were running before.
C25_StopAllTearsDown ==
  plast.op = "stopAllProxies" =>
    /\ Running(proxies) = {}
    /\ DOMAIN sniCertificates = {}
    /\ sniServer = 0
    /\ Live(servers) = {}
    /\ plast.serverBefore # 0 => servers[plast.serverBefore].status = "closed"

\* stopAllProxies() ran while both routes were running on a listening server
C25_Witness ==
  /\ plast.op = "stopAllProxies"
  /\ plast.runningBefore = Domains
  /\ plast.serverBefore # 0
  /\ servers[plast.serverBefore].status = "closed"
  /\ DOMAIN proxies = Domains

C27_BackendFailureAnswered ==
  conn.failure # "none" =>
    /\ conn.stage = "ended"
    /\ conn.status = IF conn.failure = "errorBeforeHeaders" THEN 502 ELSE 200

\* the backend of the running route a.local closed its connection after the
\* response headers had gone out to the client
C27_Witness ==
  /\ conn.failure = "abortedAfterHeaders"
  /\ conn.host = << "a.local" >>
  /\ conn.headersSent
  /\ conn.status = 200
  /\ << "a.local" >> \in Running(proxies)

(***************************************************************************)
(* Claims about CertificateManager (continued)                             *)
(***************************************************************************)
\* the leaf files of a domain that are in a directory
LeafFiles(dir, domain) == { CrtPath(domain), KeyPath(domain) } \cap DOMAIN dir

\* C28: deleteCertificate(d) returns true whenever a leaf file of d (its
\* certificate or its key) exists and false only when none existed; after it
\* has returned true neither leaf file of d remains.
C28_DeleteRemovesLeafFiles ==
  [][ (clast'.op = "deleteCertificate" /\ clast' # clast) =>
        /\ clast'.ok <=> LeafFiles(certsDir, clast'.domain) # {}
        /\ clast'.ok => LeafFiles(certsDir', clast'.domain) = {} ]_vars

\* deleteCertificate("a.local") ran where a failed issuance had left
\* a.local.key without a certificate
C28_Witness ==
  /\ clast.op = "deleteCertificate"
  /\ clast.domain = << "a.local" >>
  /\ ~clast.ok
  /\ LeafFiles(certsDir, << "a.local" >>) = { KeyPath(<< "a.local" >>) }

\* the request artifacts of a domain that are in a directory
TempFiles(dir, domain) == { CsrPath(domain), CnfPath(domain) } \cap DOMAIN dir

\* C29: when createCertificate(d) has returned or thrown, neither d.csr nor
\* d.cnf is in certsDir, whether the issuance succeeded or a step failed.
C29_NoTempFilesLeft ==
  clast.op = "createCertificate" => TempFiles(certsDir, clast.domain) = {}

\* createCertificate("a.local") failed at the signing command, after the
\* config file and the signing request had been written
C29_Witness ==
  /\ clast.op = "createCertificate"
  /\ clast.domain = << "a.local" >>
  /\ ~clast.ok
  /\ hasOpenSSL
  /\ TempFiles(certsDir, << "a.local" >>) = { CsrPath(<< "a.local" >>), CnfPath(<< "a.local" >>) }

(***************************************************************************)
(* The root CA over start-ups.  The tool starts with an empty certificate  *)
(* directory; every start-up constructs a CertificateManager and calls     *)
(* initialize(), and the CLI runs CAGenerator.generateCA() before it when  *)
(* it finds no root CA.                                                    *)
(***************************************************************************)
RootInit ==
  /\ hostsFile = << EmptyLine >>
  /\ last = NoCall
  /\ pending = NoPending
  /\ proxies = EmptyMap /\ sniServer = 0 /\ sniCertificates = EmptyMap
  /\ servers = << >> /\ savedProxies = EmptyMap /\ plast = NoProxyCall /\ conn = NoConn
  /\ build \in { "openssl", "forge" }
  /\ hasOpenSSL = FALSE
  /\ hasMkcert \in (IF build = "forge" THEN BOOLEAN ELSE { FALSE })
  /\ certsDir = EmptyMap /\ clock = 0 /\ clast = NoCertCall /\ issuing = NoIssuing
  /\ rootCA = NoRoot

\* the process ends and a new one constructs its CertificateManager
RestartCerts ==
  /\ hasOpenSSL' = FALSE
  /\ clast' = CertCall("restart", << >>, TRUE, NullInfo)
  /\ UNCHANGED << build, hasMkcert, certsDir, clock >>
  /\ UNCHANGED << issuing, rootCA, hostVars, proxyVars >>

\* the CLI's check before it starts the managers
GenerateCA ==
  \E failAt \in RootFailPoints :
    LET r == generateCA(rootCA, failAt)
    IN  /\ build = "openssl"
        /\ r.root.keys <= MaxRootKeys
        /\ rootCA' = r.root
        /\ clast' = CertCall("generateCA", << >>, r.ok, NullInfo)
        /\ UNCHANGED << build, hasOpenSSL, hasMkcert, certsDir, clock >>
        /\ UNCHANGED << issuing, hostVars, proxyVars >>

RootNext ==
  \/ Initialize
  \/ GenerateCA
  \/ RestartCerts
  \/ CreateCertificate

SpecRootCA == RootInit /\ [][RootNext]_vars

\* C30: initialize() generates the root key and certificate exactly once:
\* where both files exist it generates nothing, at most one generation ever
\* completes, and once a root pair has been produced the pair on disk is
\* that first pair, whatever initialize() calls and restarts follow.
C30_RootGeneratedOnce ==
  /\ [] ( /\ rootCA.pairs <= 1
          /\ rootCA.first # 0 =>
               (rootCA.key = rootCA.first /\ rootCA.cert = rootCA.first) )
  /\ [][ (rootCA.key # 0 /\ rootCA.cert # 0) => rootCA' = rootCA ]_vars

\* initialize() ran where the root pair already existed; that pair had been
\* made by the second attempt, after a first one had failed behind its key
C30_Witness ==
  /\ clast.op = "initialize" /\ clast.ok /\ clast.rootExisted
  /\ build = "openssl" /\ hasOpenSSL
  /\ rootCA.keys = 2 /\ rootCA.first = 2
  /\ rootCA.key = 2 /\ rootCA.cert = 2

(***************************************************************************)
(* listCertificates over a certificate directory.  Besides a.local and     *)
(* b.local the directory may hold the files of a domain with the label     *)
(* "crt" in it, app.crt.local; a domain's certificate file may be there    *)
(* with its key, without it, or hold no certificate.                       *)
(***************************************************************************)
InnerCrtName == << "app", ".crt", ".local" >>
ListDomains == CertDomains \cup { InnerCrtName }

\* what certsDir may hold for one domain
LeafStates(domain) ==
  { EmptyMap,
    [ f \in { CrtPath(domain), KeyPath(domain) } |->
        IF f = CrtPath(domain) THEN Certificate(domain, << domain >>, 0, CertDays)
        ELSE OtherFile("key", domain, NoNames) ],
    [ f \in { CrtPath(domain) } |-> Certificate(domain, << domain >>, 0, CertDays) ],
    [ f \in { CrtPath(domain), KeyPath(domain) } |->
        IF f = CrtPath(domain) THEN OtherFile("garbage", domain, NoNames)
        ELSE OtherFile("key", domain, NoNames) ] }

Merge(f, g) ==
  [ x \in (DOMAIN f) \cup (DOMAIN g) |-> IF x \in DOMAIN f THEN f[x] ELSE g[x] ]

ListDirs ==
  { Merge(a, Merge(b, c)) :
      a \in LeafStates(<< "a.local" >>), b \in LeafStates(<< "b.local" >>),
      c \in LeafStates(InnerCrtName) }

ListInit ==
  /\ hostsFile = << EmptyLine >>
  /\ last = NoCall
  /\ pending = NoPending
  /\ proxies = EmptyMap /\ sniServer = 0 /\ sniCertificates = EmptyMap
  /\ servers = << >> /\ savedProxies = EmptyMap /\ plast = NoProxyCall /\ conn = NoConn
  /\ build \in { "openssl", "forge" }
  /\ hasOpenSSL = (build = "openssl")
  /\ hasMkcert = FALSE
  /\ certsDir \in ListDirs
  /\ clock = 0 /\ clast = NoCertCall /\ issuing = NoIssuing /\ rootCA = IssuedRoot

ListCertificates ==
  \E readable \in BOOLEAN :
    /\ clast' = [ CertCall("listCertificates", << >>, readable, NullInfo)
                    EXCEPT !.list = listCertificates(build, certsDir, clock, readable) ]
    /\ UNCHANGED << build, hasOpenSSL, hasMkcert, certsDir, clock >>
    /\ UNCHANGED << issuing, rootCA, hostVars, proxyVars >>

ListNext ==
  \/ ListCertificates
  \/ Tick

SpecList == ListInit /\ [][ListNext]_vars

\* verifyCertificate(domain) has something to parse: both files are there
\* and the certificate file holds a certificate
Parsable(dir, domain) ==
  /\ CrtPath(domain) \in DOMAIN dir
  /\ KeyPath(domain) \in DOMAIN dir
  /\ dir[CrtPath(domain)].kind = "crt"

RecordsOf(list, domain) == { f \in DOMAIN list : list[f].domain = domain }

\* C31: listCertificates() returns exactly one record for every domain whose
\* .crt file verifyCertificate can parse and none for the others, and it
\* returns the empty list when the directory cannot be read.
C31_ListsEveryParsable ==
  clast.op = "listCertificates" =>
    IF ~clast.ok THEN clast.list = << >>
    ELSE \A d \in ListDomains :
           Cardinality(RecordsOf(clast.list, d)) =
             IF Parsable(certsDir, d) THEN 1 ELSE 0

\* listCertificates() ran on a readable directory that holds the certificate
\* and the key of app.crt.local, and a.local's certificate without its key
C31_Witness ==
  /\ clast.op = "listCertificates" /\ clast.ok
  /\ Parsable(certsDir, InnerCrtName)
  /\ Parsable(certsDir, << "b.local" >>)
  /\ LeafFiles(certsDir, << "a.local" >>) = { CrtPath(<< "a.local" >>) }

(***************************************************************************)
(* HostsManager with a hosts file that may be unreadable: fs.readFile may  *)
(* reject (ENOENT, EACCES).  Each operation is the method with its try and *)
(* catch: what it returns, or that it threw.                               *)
(***************************************************************************)
\* fs.readFile(this.hostsFilePath, 'utf-8')
readFile(lines, readable) ==
  [ thrown |-> ~readable, content |-> IF readable THEN lines ELSE << >> ]

\* a readHosts whose catch returns an empty list
readHostsOrEmpty(lines, readable) ==
  [ thrown |-> FALSE,
    hosts |-> IF readable THEN parseHostsFile(lines) ELSE << >> ]

\* HostsManager.readHosts with its catch
readHostsOrThrow(lines, readable) ==
  LET f == readFile(lines, readable)
  IN  IF f.thrown THEN [ thrown |-> TRUE, hosts |-> << >> ]
      ELSE [ thrown |-> FALSE, hosts |-> parseHostsFile(f.content) ]

Thrown(lines) ==
  [ lines |-> lines, ret |-> FALSE, written |-> FALSE, thrown |-> TRUE ]
Returned(r) ==
  [ lines |-> r.lines, ret |-> r.ret, written |-> r.written, thrown |-> FALSE ]

\* HostsManager.addHost with its catch
addHostOrThrow(lines, domain, ip, readable) ==
  LET r == readHostsOrThrow(lines, readable)
  IN  IF r.thrown THEN Thrown(lines)
      ELSE IF FindHost(r.hosts, domain, ip) = {}
           THEN Returned(appendToHostsFile(lines, ip, domain))
           ELSE Returned(addHost(lines, domain, ip))

\* HostsManager.toggleHostState with its catch
toggleHostStateOrThrow(lines, domain, disable, ip, readable) ==
  IF readFile(lines, readable).thrown THEN Thrown(lines)
  ELSE Returned(toggleHostState(lines, domain, disable, ip))

\* HostsManager.removeHost with its catch
removeHostOrThrow(lines, domain, ip, readable) ==
  IF readFile(lines, readable).thrown THEN Thrown(lines)
  ELSE Returned(removeHost(lines, domain, ip))

IOCall(op, domain, ip, disable, r, count, readable) ==
  [ Call(op, domain, ip, disable, r, count)
      EXCEPT !.thrown = r.thrown, !.readable = readable ]

ReadHostsIO ==
  \E readable \in BOOLEAN :
    LET r == readHostsOrThrow(hostsFile, readable)
    IN  /\ last' = IOCall("readHosts", <<>>, <<>>, FALSE,
                          [ ret |-> ~r.thrown, written |-> FALSE, thrown |-> r.thrown ],
                          Len(r.hosts), readable)
        /\ UNCHANGED << hostsFile, pending, proxyVars, certVars >>

AddHostIO ==
  \E domain \in Domains, ip \in Ips, readable \in BOOLEAN :
    LET r == addHostOrThrow(hostsFile, domain, ip, readable)
    IN  /\ Len(r.lines) <= MaxFileLen
        /\ hostsFile' = r.lines
        /\ last' = IOCall("addHost", domain, ip, FALSE, r, 0, readable)
        /\ UNCHANGED << pending, proxyVars, certVars >>

ToggleHostStateIO ==
  \E domain \in Domains, ip \in Ips, disable \in BOOLEAN, readable \in BOOLEAN :
    LET r == toggleHostStateOrThrow(hostsFile, domain, disable, ip, readable)
    IN  /\ hostsFile' = r.lines
        /\ last' = IOCall("toggleHostState", domain, ip, disable, r, 0, readable)
        /\ UNCHANGED << pending, proxyVars, certVars >>

RemoveHostIO ==
  \E domain \in Domains, ip \in Ips, readable \in BOOLEAN :
    LET r == removeHostOrThrow(hostsFile, domain, ip, readable)
    IN  /\ hostsFile' = r.lines
        /\ last' = IOCall("removeHost", domain, ip, FALSE, r, 0, readable)
        /\ UNCHANGED << pending, proxyVars, certVars >>

\* the hosts files the calls start on: blank lines, both identifiers, and
\* a.local's entry uncommented and commented
UnreadableLines ==
  { EmptyLine, APP_IDENTIFIER, DISABLED_IDENTIFIER,
    << "127.0.0.1", " ", "a.local" >>,
    << "#", " ", "127.0.0.1", " ", "a.local" >> }
UnreadableFiles == UNION { [ 1..n -> UnreadableLines ] : n \in 1..MaxInitLines }

UnreadableInit ==
  /\ hostsFile \in UnreadableFiles
  /\ last = NoCall
  /\ pending = NoPending
  /\ proxies = EmptyMap /\ sniServer = 0 /\ sniCertificates = EmptyMap
  /\ servers = << >> /\ savedProxies = EmptyMap /\ plast = NoProxyCall /\ conn = NoConn
  /\ build = "openssl" /\ hasOpenSSL = FALSE /\ hasMkcert = FALSE
  /\ certsDir = EmptyMap /\ clock = 0 /\ clast = NoCertCall /\ issuing = NoIssuing /\ rootCA = IssuedRoot

UnreadableNext ==
  \/ ReadHostsIO
  \/ AddHostIO
  \/ ToggleHostStateIO
  \/ RemoveHostIO

SpecHostsUnreadable == UnreadableInit /\ [][UnreadableNext]_vars

\* C32: while the hosts file cannot be read, readHosts() throws (it returns
\* no list), and addHost, removeHost and toggleHostState throw as well and
\* leave the hosts file as it was, without a write.
C32_UnreadableThrows ==
  ~last.readable =>
    /\ last.thrown
    /\ ~last.ret
    /\ ~last.written
    /\ hostsFile = last.before

\* addHost was called for a domain the file has no line for while the file
\* could not be read
C32_Witness ==
  /\ last.op = "addHost" /\ ~last.readable
  /\ LinesNaming(hostsFile, last.domain) = {}
  /\ hostsFile # << EmptyLine >>

(***************************************************************************)
(* The workflow of the CLI for one domain, from an empty installation:     *)
(* addHost, createCertificate, addProxy, startProxy, each step taken once  *)
(* the one before it has succeeded and repeated while it fails; then the   *)
(* shared server binds its port or fails to, and a client connects.        *)
(***************************************************************************)
WfDomain == << "a.local" >>

WfIssued ==
  clast.op = "createCertificate" /\ clast.ok /\ clast.domain = WfDomain

WorkflowInit ==
  /\ hostsFile = << EmptyLine >>
  /\ last = NoCall
  /\ pending = NoPending
  /\ proxies = EmptyMap /\ sniServer = 0 /\ sniCertificates = EmptyMap
  /\ servers = << >> /\ savedProxies = EmptyMap /\ plast = NoProxyCall /\ conn = NoConn
  /\ build = "openssl" /\ hasOpenSSL = TRUE /\ hasMkcert = FALSE
  /\ certsDir = EmptyMap /\ clock = 0 /\ clast = NoCertCall /\ issuing = NoIssuing
  /\ rootCA = IssuedRoot

WfAddHost ==
  /\ last.op = "none"
  /\ AddHost
  /\ last'.domain = WfDomain /\ last'.ip = DefaultIp

WfCreateCertificate ==
  /\ last.op = "addHost" /\ last.ret
  /\ ~WfIssued
  /\ CreateCertificate
  /\ clast'.domain = WfDomain

WfAddProxy ==
  /\ WfIssued
  /\ WfDomain \notin DOMAIN proxies
  /\ AddProxy
  /\ plast'.domain = WfDomain

WfStartProxy ==
  /\ WfDomain \in DOMAIN proxies
  /\ ~proxies[WfDomain].isRunning
  /\ StartProxy
  /\ plast'.domain = WfDomain

WorkflowNext ==
  \/ WfAddHost
  \/ WfCreateCertificate
  \/ WfAddProxy
  \/ WfStartProxy
  \/ ListenOk
  \/ ListenError
  \/ ClientHello
  \/ ServerHello
  \/ ConnRequest
  \/ BackendResponse
  \/ BackendEnd
  \/ ProxyReqError
  \/ ProxyResAborted
  \/ ConnClose

SpecWorkflow == WorkflowInit /\ [][WorkflowNext]_vars

\* addHost, createCertificate, addProxy and startProxy have each returned
\* successfully for the domain, startProxy last
WorkflowDone ==
  /\ last.op = "addHost" /\ last.ret /\ last.domain = WfDomain
  /\ WfIssued
  /\ WfDomain \in DOMAIN proxies
  /\ plast.op \in { "startProxy", "listening", "listenError" }
  /\ plast.domain = WfDomain /\ plast.ret

\* the connection in flight named the domain in its handshake and in its
\* Host header, and its request has reached the request handler
RequestFor(domain) ==
  /\ conn.servername = domain
  /\ HostPart(conn.host) = domain
  /\ conn.stage \in { "proxying", "ended", "open" }

\* C33: once addHost(d), createCertificate(d), addProxy({d, t}) and
\* startProxy(d, cert, key) have succeeded, the shared server accepts
\* connections as soon as its listen call has settled, a request with SNI and
\* Host d is forwarded to t, and the backend's response reaches the client
\* with the X-Proxied-By header.
C33_WorkflowServes ==
  WorkflowDone =>
    /\ plast.op # "startProxy" => servers[sniServer].status = "listening"
    /\ RequestFor(WfDomain) =>
         /\ conn.target = proxies[WfDomain].target
         /\ conn.status \notin { 400, 404 }
         /\ conn.status = 200 => conn.proxiedBy

\* the four steps have succeeded and the server that startProxy created
\* could not bind its port
C33_Witness ==
  /\ WorkflowDone
  /\ plast.op = "listenError"
  /\ servers[sniServer].status = "failed"
  /\ proxies[WfDomain].isRunning

(***************************************************************************)
(* Claims about ProxyService (third part)                                  *)
(***************************************************************************)
\* C34: an updateProxy that supplies only a port (as PATCH
\* /api/proxies/:domain with a body of only a port does) leaves the route's
\* stored target as it was, and one that supplies only a target leaves the
\* stored port as it was.
C34_UpdateKeepsUnsupplied ==
  [][ (plast'.op = "updateProxy" /\ plast'.ret /\ plast' # plast) =>
        LET d == plast'.domain
        IN  /\ plast'.target = NoTarget => proxies'[d].target = proxies[d].target
            /\ plast'.port = NoPort => proxies'[d].port = proxies[d].port ]_vars

\* a.local has been updated with a port and no target, and its stored record
\* has no target any more
C34_Witness ==
  /\ plast.op = "updateProxy" /\ plast.ret
  /\ plast.domain = << "a.local" >>
  /\ plast.target = NoTarget /\ plast.port = 8443
  /\ proxies[<< "a.local" >>].target = NoTarget
  /\ savedProxies[<< "a.local" >>].target = NoTarget

(***************************************************************************)
(* DELETE /api/hosts/:domain of WebServer: removeHost, then                *)
(* deleteCertificate of the same domain, then the answer, which depends on *)
(* removeHost alone.                                                       *)
(***************************************************************************)
deleteHostRoute(lines, b, dir, now, domain, ip) ==
  LET host == removeHost(lines, domain, ip)
      cert == deleteCertificate(b, dir, now, domain)
  IN  [ lines |-> host.lines, ret |-> host.ret, written |-> host.written,
        dir |-> cert.dir, certSuccess |-> cert.ok,
        status |-> IF host.ret THEN 200 ELSE 404 ]

DeleteHostRoute ==
  \E domain \in Domains, ip \in Ips :
    LET r == deleteHostRoute(hostsFile, build, certsDir, clock, domain, ip)
    IN  /\ hostsFile' = r.lines
        /\ certsDir' = r.dir
        /\ last' = [ Call("DELETE /api/hosts", domain, ip, FALSE, r, 0)
                       EXCEPT !.status = r.status ]
        /\ clast' = CertCall("deleteCertificate", domain, r.certSuccess, NullInfo)
        /\ UNCHANGED << pending, proxyVars >>
        /\ UNCHANGED << build, hasOpenSSL, hasMkcert, clock, issuing, rootCA >>

WebHostsInit ==
  /\ hostsFile \in UnreadableFiles
  /\ last = NoCall
  /\ pending = NoPending
  /\ proxies = EmptyMap /\ sniServer = 0 /\ sniCertificates = EmptyMap
  /\ servers = << >> /\ savedProxies = EmptyMap /\ plast = NoProxyCall /\ conn = NoConn
  /\ build \in { "openssl", "forge" }
  /\ hasOpenSSL = (build = "openssl")
  /\ hasMkcert \in (IF build = "forge" THEN BOOLEAN ELSE { FALSE })
  /\ certsDir \in InitDirs
  /\ clock = 0 /\ clast = NoCertCall /\ issuing = NoIssuing /\ rootCA = IssuedRoot

WebHostsNext ==
  \/ DeleteHostRoute

SpecWebHosts == WebHostsInit /\ [][WebHostsNext]_vars

\* C35: when DELETE /api/hosts/:domain answers 404, the call has changed
\* nothing: the hosts file and the certificate directory, the domain's leaf
\* files in particular, are as they were before it.
C35_NotFoundChangesNothing ==
  [][ (last'.op = "DELETE /api/hosts" /\ last'.status = 404 /\ last' # last) =>
        /\ hostsFile' = hostsFile
        /\ certsDir' = certsDir
        /\ LeafFiles(certsDir', last'.domain) = LeafFiles(certsDir, last'.domain)
    ]_vars

\* DELETE /api/hosts/a.local answered 404 on a hosts file without a managed
\* entry for a.local, and a.local's certificate and key are gone
C35_Witness ==
  /\ last.op = "DELETE /api/hosts" /\ last.status = 404
  /\ last.domain = << "a.local" >>
  /\ clast.op = "deleteCertificate" /\ clast.ok
  /\ LeafFiles(certsDir, << "a.local" >>) = {}
  /\ hostsFile = last.before

\* C36: startProxy(domain, certPath, keyPath) returns false and changes
\* nothing (routes and their running flags, SNI table, listener, persisted
\* table) when the domain has no registered route or the certificate or key
\* file cannot be read.
C36_StartFalseChangesNothing ==
  [][ ( /\ plast'.op = "startProxy" /\ plast' # plast
        /\ \/ plast'.domain \notin DOMAIN proxies
           \/ plast'.certPath \notin DOMAIN certsDir
           \/ plast'.keyPath \notin DOMAIN certsDir ) =>
        /\ ~plast'.ret
        /\ UNCHANGED << proxies, sniServer, sniCertificates, servers, savedProxies >>
        /\ plast'.domain \notin Running(proxies') \ Running(proxies) ]_vars

\* startProxy was called for the registered, stopped route a.local with files
\* that are not on disk, while b.local was running
C36_Witness ==
  /\ plast.op = "startProxy" /\ ~plast.ret
  /\ plast.domain = << "a.local" >>
  /\ plast.certPath \notin DOMAIN certsDir
  /\ << "a.local" >> \in DOMAIN proxies
  /\ ~proxies[<< "a.local" >>].isRunning
  /\ plast.runningBefore = { << "b.local" >> }

\* C37: in every state reached by addProxy, startProxy, stopProxy,
\* removeProxy, updateProxy and stopAllProxies the three views of "running"
\* agree: the domains of the SNI certificate table are the routes with
\* isRunning = true, and the shared listener exists exactly when there is
\* such a route.
C37_RunningViewsAgree ==
  /\ DOMAIN sniCertificates = Running(proxies)
  /\ (sniServer # 0) <=> (Running(proxies) # {})

\* addProxy has just replaced the route of a domain whose certificate is
\* still in the SNI table
C37_Witness ==
  /\ plast.op = "addProxy"
  /\ plast.domain \in DOMAIN sniCertificates
  /\ plast.domain \in DOMAIN proxies

\* C38: after any sequence of ProxyService operations, a ProxyService
\* constructed afterwards holds exactly the routes the previous instance
\* held, with the same domain, target, port, certPath and keyPath, and every
\* one of them stopped.
C38_RestartRoundTrip ==
  [][ plast'.op = "restart" =>
        /\ DOMAIN proxies' = DOMAIN proxies
        /\ \A d \in DOMAIN proxies :
             /\ proxies'[d].domain = proxies[d].domain
             /\ proxies'[d].target = proxies[d].target
             /\ proxies'[d].port = proxies[d].port
             /\ proxies'[d].certPath = proxies[d].certPath
             /\ proxies'[d].keyPath = proxies[d].keyPath
             /\ ~proxies'[d].isRunning ]_vars

\* a restart of a process that held two routes: one started and moved to
\* another port, one never started
C38_Witness ==
  /\ plast.op = "restart"
  /\ DOMAIN proxies = Domains
  /\ \E d \in Domains :
       /\ proxies[d].certPath # NoPath
       /\ proxies[d].port \notin { NoPort, DefaultProxyPort }
  /\ \E d \in Domains : proxies[d].certPath = NoPath

(***************************************************************************)
(* HostsManager on a hosts file that follows the encoding of managed       *)
(* entries: an identifier line only directly below a data line, the        *)
(* disabled identifier below a commented data line and the other one       *)
(* below an uncommented data line                                          *)
(***************************************************************************)
Commented(line) == StartsWithHash(Trim(line))

Encoded(lines) ==
  \A i \in 1..Len(lines) :
    IsIdentifier(lines[i]) =>
      /\ i > 1
      /\ IsDataLine(lines[i - 1])
      /\ Commented(lines[i - 1]) <=> (Trim(lines[i]) = DISABLED_IDENTIFIER)

EncodedFiles == { f \in InitFiles : Encoded(f) }

EncodedInit ==
  /\ hostsFile \in EncodedFiles
  /\ last = NoCall
  /\ pending = NoPending
  /\ proxies = EmptyMap /\ sniServer = 0 /\ sniCertificates = EmptyMap
  /\ servers = << >> /\ savedProxies = EmptyMap /\ plast = NoProxyCall /\ conn = NoConn
  /\ build = "openssl" /\ hasOpenSSL = FALSE /\ hasMkcert = FALSE
  /\ certsDir = EmptyMap /\ clock = 0 /\ clast = NoCertCall /\ issuing = NoIssuing /\ rootCA = IssuedRoot

SpecHostsEncoded == EncodedInit /\ [][HostsNext]_vars

\* C39: from a hosts file in which every identifier line sits directly below
\* a data line that is commented exactly when the identifier is the disabled
\* one, every sequence of addHost, adoptHost, importAllLocalHosts,
\* toggleHostState and removeHost keeps both facts: no identifier line
\* without its data line, and the comment state of a managed data line
\* matches its identifier.
C39_EncodingKept == Encoded(hostsFile)

\* a managed entry has just been disabled and another one is still enabled
C39_Witness ==
  /\ last.op = "toggleHostState" /\ last.disable /\ last.written
  /\ \E i \in 1..Len(hostsFile) : Trim(hostsFile[i]) = DISABLED_IDENTIFIER
  /\ \E i \in 1..Len(hostsFile) : Trim(hostsFile[i]) = APP_IDENTIFIER

(***************************************************************************)
(* Claims about HostsManager (last part)                                   *)
(***************************************************************************)
\* C40: for a domain that no line of the hosts file names, addHost(d)
\* followed by removeHost(d) leaves the file as it was before addHost, line
\* for line, the empty last line of a file that ends with a newline included.
C40_AddRemoveRestoresFile ==
  (/\ last.op = "removeHost" /\ last.afterAdd
   /\ LinesNaming(last.beforeAdd, last.domain) = {}) =>
    /\ last.ret
    /\ hostsFile = last.beforeAdd

\* the round trip on a file that ends with a newline and names another domain
C40_Witness ==
  /\ last.op = "removeHost" /\ last.afterAdd /\ last.ret
  /\ LinesNaming(last.beforeAdd, last.domain) = {}
  /\ Len(last.beforeAdd) = 2
  /\ last.beforeAdd[2] = EmptyLine
  /\ last.beforeAdd[1] # EmptyLine
  /\ Len(last.before) = 4

====
